---------------------------- MODULE Spec2Model ----------------------------
(***************************************************************************)
(* A model of the article materialization workflow of encyclopedai:        *)
(* main/slugs.py (slug normalizer), main/models.py (Article and            *)
(* ArticleCreationLock tables) and main/services.py (creation lock,        *)
(* daily quota, get_or_create_article).                                    *)
(*                                                                         *)
(* Text values (titles, slugs, summaries) are sequences of one-character    *)
(* strings.  Time is counted in minutes.  The database is PostgreSQL at    *)
(* READ COMMITTED, Django in autocommit mode: every ORM statement outside  *)
(* transaction.atomic() is its own transaction.                            *)
(***************************************************************************)
EXTENDS Integers, Sequences, FiniteSets, TLC

(***************************************************************************)
(* Bounds of the model.                                                    *)
(***************************************************************************)
\* number of get_or_create_article calls started in one behaviour
MaxCalls == 2
\* the clock stops advancing this many minutes after midnight
MaxMinute == 10
\* number of midnights the clock may pass
MaxDays == 1
\* number of worker terminations (a request torn down while it holds a lock)
MaxCrashes == 1
\* number of staff deletions of an article
MaxDeletes == 1

(***************************************************************************)
(* Program constants and settings.                                         *)
(***************************************************************************)
\* ARTICLE_CREATION_LOCK_TTL = timedelta(minutes=5)
ARTICLE_CREATION_LOCK_TTL == 5
\* settings.DAILY_ARTICLE_LIMIT
DAILY_ARTICLE_LIMIT == 1
\* minutes in a calendar day (created_at__date, timezone.now().date())
MinutesPerDay == 24 * 60

\* longest title handed to encyclopedai_slugify on its own
MaxTitleLen == 5

\* most pieces of markdown a content handed to extract_outgoing_links on its
\* own is made of
MaxSegments == 3

\* most Article rows written when Article.save is exercised on its own
MaxArticles == 3

(***************************************************************************)
(* Text helpers: str.strip, str.lower, str.replace over character          *)
(* sequences.                                                              *)
(***************************************************************************)
lowerChar(c) == CASE c = "X" -> "x" [] c = "Y" -> "y" [] OTHER -> c

\* the characters str.isspace accepts
Whitespace == {" ", "\t", "\n"}

isspace(c) == c \in Whitespace

\* the characters \w matches
isword(c) == c \in {"x", "y", "X", "Y", "2", "_"}

lower(s) == [i \in 1..Len(s) |-> lowerChar(s[i])]

RECURSIVE lstrip(_, _)
lstrip(s, chars) ==
    IF s # <<>> /\ Head(s) \in chars THEN lstrip(Tail(s), chars) ELSE s

RECURSIVE rstrip(_, _)
rstrip(s, chars) ==
    IF s # <<>> /\ s[Len(s)] \in chars
    THEN rstrip(SubSeq(s, 1, Len(s) - 1), chars)
    ELSE s

\* str.strip(chars); strip(s) is str.strip() with no argument
stripChars(s, chars) == rstrip(lstrip(s, chars), chars)

strip(s) == stripChars(s, Whitespace)

RECURSIVE Concat(_)
Concat(ss) == IF ss = <<>> THEN <<>> ELSE Head(ss) \o Concat(Tail(ss))

(***************************************************************************)
(* django.utils.text.slugify applied to a buffer of encyclopedai_slugify.  *)
(* The buffer never holds whitespace, hyphens or parentheses, so slugify   *)
(* lowercases it, drops every character that is not a word character and   *)
(* strips underscores from both ends.                                      *)
(***************************************************************************)
django_slugify(buffer) ==
    LET kept == SelectSeq(lower(buffer), isword)
    IN  stripChars(kept, {"-", "_"})

_SEPARATOR_CHARS == {" ", "\t", "-", "/"}

\* flush_buffer: slugify the buffer and append the fragment when non-empty
flush_buffer(parts, buffer) ==
    IF buffer = <<>> THEN parts
    ELSE LET fragment == django_slugify(buffer)
         IN  IF fragment # <<>> THEN Append(parts, fragment) ELSE parts

\* variant: a separator is appended after an opening parenthesis too
append_separator_after_parenthesis(parts) ==
    IF parts # <<>> /\ parts[Len(parts)] # <<"-">>
    THEN Append(parts, <<"-">>)
    ELSE parts

\* append_separator
append_separator(parts) ==
    IF parts # <<>> /\ parts[Len(parts)] \notin {<<"-">>, <<"(">>}
    THEN Append(parts, <<"-">>)
    ELSE parts

\* variant: parentheses are separators like the hyphen
RECURSIVE slugLoopWithoutParentheses(_, _, _)
slugLoopWithoutParentheses(chars, parts, buffer) ==
    IF chars = <<>> THEN flush_buffer(parts, buffer)
    ELSE IF Head(chars) \in _SEPARATOR_CHARS \cup {"(", ")"} \/ isspace(Head(chars))
    THEN slugLoopWithoutParentheses(Tail(chars),
                                    append_separator(flush_buffer(parts, buffer)),
                                    <<>>)
    ELSE slugLoopWithoutParentheses(Tail(chars), parts, Append(buffer, Head(chars)))

\* the loop over the characters of the normalised title
RECURSIVE slugLoop(_, _, _)
slugLoop(chars, parts, buffer) ==
    IF chars = <<>> THEN flush_buffer(parts, buffer)
    ELSE LET char == Head(chars)
             rest == Tail(chars)
         IN  IF char \in {"(", ")"}
             THEN LET flushed == flush_buffer(parts, buffer)
                      popped == IF char = ")" /\ flushed # <<>>
                                   /\ flushed[Len(flushed)] = <<"-">>
                                THEN SubSeq(flushed, 1, Len(flushed) - 1)
                                ELSE flushed
                  IN  slugLoop(rest, Append(popped, <<char>>), <<>>)
             ELSE IF char \in _SEPARATOR_CHARS \/ isspace(char)
             THEN slugLoop(rest, append_separator(flush_buffer(parts, buffer)), <<>>)
             ELSE slugLoop(rest, parts, Append(buffer, char))

\* _HYPHEN_COLLAPSE_RE.sub("-", slug): runs of hyphens become one hyphen
RECURSIVE collapseHyphens(_)
collapseHyphens(s) ==
    IF Len(s) < 2 THEN s
    ELSE IF s[1] = "-" /\ s[2] = "-" THEN collapseHyphens(Tail(s))
    ELSE <<s[1]>> \o collapseHyphens(Tail(s))

\* slug.replace("-)", ")"): non-overlapping, left to right
RECURSIVE replaceHyphenParen(_)
replaceHyphenParen(s) ==
    IF Len(s) < 2 THEN s
    ELSE IF s[1] = "-" /\ s[2] = ")" THEN <<")">> \o replaceHyphenParen(Tail(Tail(s)))
    ELSE <<s[1]>> \o replaceHyphenParen(Tail(s))

\* variant: underscores are replaced in the finished slug instead of in the
\* title
slugifyUnderscoresLast(value) ==
    IF value = <<>> THEN <<>>
    ELSE LET normalised == strip(value)
         IN  IF normalised = <<>> THEN <<>>
             ELSE LET parts == slugLoop(normalised, <<>>, <<>>)
                      slug == collapseHyphens(Concat(parts))
                      stripped == lower(stripChars(slug, {"-"}))
                      replaced == replaceHyphenParen(stripped)
                  IN  [i \in 1..Len(replaced) |->
                          IF replaced[i] = "_" THEN " " ELSE replaced[i]]

underscoreToSpace(s) == [i \in 1..Len(s) |-> IF s[i] = "_" THEN " " ELSE s[i]]

encyclopedai_slugify(value) ==
    IF value = <<>> THEN <<>>
    ELSE LET normalised == strip(underscoreToSpace(value))
         IN  IF normalised = <<>> THEN <<>>
             ELSE LET parts == slugLoop(normalised, <<>>, <<>>)
                      slug == collapseHyphens(Concat(parts))
                      stripped == lower(stripChars(slug, {"-"}))
                  IN  replaceHyphenParen(stripped)

(***************************************************************************)
(* Inputs of get_or_create_article.                                        *)
(***************************************************************************)
\* the worker processes serving requests
Procs == {1, 2}

\* the arguments a call may carry: topic, summary_hint, slug_hint; <<>>
\* stands for None.  The first three resolve to slug "x" (the second by a
\* title equal up to case and padding, the third by its slug hint), the
\* fourth to slug "y"; the last topic is whitespace only.
Requests ==
    {<< <<"X">>, <<>>, <<>> >>,
     << <<"x", " ">>, <<"s">>, <<>> >>,
     << <<"Y">>, <<>>, <<"X">> >>,
     << <<"Y">>, <<>>, <<>> >>,
     << <<" ">>, <<>>, <<>> >>}

\* the outcomes of one generate_article_content call
GenerationOutcomes == {"text", "RuntimeError", "ImproperlyConfigured"}

(***************************************************************************)
(* State.                                                                  *)
(***************************************************************************)
VARIABLES
    articles,   \* the Article table: a set of rows
    locks,      \* the ArticleCreationLock table: the committed rows
    now,        \* timezone.now(), in minutes
    nextId,     \* the next value of the Article id sequence
    calls,      \* number of get_or_create_article calls started
    req,        \* per worker: the call it executes, or the last one it ended
    killed,     \* slug and token of the workers terminated while holding the lock
    deleted,    \* ids of the articles deleted by staff
    input,      \* the argument of the function that is applied on its own
    output      \* the values that function returned, in order

vars == <<articles, locks, now, nextId, calls, req, killed, deleted, input, output>>

\* a worker that executes no call
Idle ==
    [pc |-> "idle", call |-> 0, title |-> <<>>, summary |-> <<>>,
     hint |-> <<>>, slug |-> <<>>, now |-> 0, token |-> 0, txDeleted |-> {},
     content |-> 0, invoked |-> FALSE, lockWrites |-> 0, articleWrites |-> 0,
     quotaChecked |-> FALSE, kind |-> "none", article |-> 0, created |-> FALSE,
     excSlug |-> <<>>, excTitle |-> <<>>, endedAt |-> 0]

\* timezone.now().date()
Date(t) == t \div MinutesPerDay

\* f"article-{shortuuid.uuid()}": a slug no other call derives
RandomSlug(call) == <<"article-", ToString(call)>>

Init ==
    /\ articles = {}
    /\ locks = {}
    /\ now = 0
    /\ nextId = 1
    /\ calls = 0
    /\ req = [p \in Procs |-> Idle]
    /\ killed = {}
    /\ deleted = {}
    /\ input = <<>>
    /\ output = <<>>

(***************************************************************************)
(* Article table helpers.                                                  *)
(***************************************************************************)
\* variant: the title lookup compares case-sensitively (title__exact)
ByTitleExact(title) == {a \in articles : a.title = title}

\* Article.objects.filter(title__iexact=title)
ByTitleIexact(title) == {a \in articles : lower(a.title) = lower(title)}

\* Article.objects.filter(slug=slug)
BySlug(slug) == {a \in articles : a.slug = slug}

\* "if cleaned_summary and existing.summary_snippet != cleaned_summary:
\*      existing.summary_snippet = cleaned_summary; existing.save(...)"
NeedsRefresh(existing, cleaned_summary) ==
    cleaned_summary # <<>> /\ existing.summary_snippet # cleaned_summary

\* variant: the hint is written whenever an article is found
RefreshSummaryAlways(existing, cleaned_summary) ==
    (articles \ {existing})
        \cup {[existing EXCEPT !.summary_snippet = cleaned_summary]}

RefreshSummary(existing, cleaned_summary) ==
    IF NeedsRefresh(existing, cleaned_summary)
    THEN (articles \ {existing})
            \cup {[existing EXCEPT !.summary_snippet = cleaned_summary]}
    ELSE articles

\* the call of worker p ends with record r, which the worker keeps until it
\* starts its next call
Finish(p, r) ==
    req' = [req EXCEPT ![p] =
              [r EXCEPT !.pc = "ended", !.txDeleted = {}, !.content = 0,
                        !.summary = <<>>, !.hint = <<>>, !.endedAt = IF r.call > calls THEN r.call ELSE calls]]

\* the call whose record is r returns an article it found: (existing, False)
ReturnExisting(p, r, existing, nextpc) ==
    LET refreshed == NeedsRefresh(existing, r.summary)
        r2 == [r EXCEPT !.kind = "ok", !.article = existing.id, !.created = FALSE,
                        !.articleWrites = @ + (IF refreshed THEN 1 ELSE 0)]
    IN  /\ articles' = RefreshSummary(existing, r.summary)
        /\ IF nextpc = "ended"
           THEN Finish(p, r2)
           ELSE req' = [req EXCEPT ![p] = [r2 EXCEPT !.pc = nextpc]]

\* the call whose record is r raises
Raise(p, r, kind) == Finish(p, [r EXCEPT !.kind = kind])

(***************************************************************************)
(* get_or_create_article, lines 517-528: the call starts, strips the topic *)
(* and looks the title up case-insensitively.                              *)
(***************************************************************************)
Call(p, topic, summary_hint, slug_hint) ==
    /\ req[p].pc \in {"idle", "ended"}
    /\ calls < MaxCalls
    /\ calls' = calls + 1
    /\ LET cleaned_title == strip(topic)
           r == [Idle EXCEPT !.call = calls + 1, !.title = cleaned_title,
                             !.summary = strip(summary_hint), !.hint = slug_hint]
       IN  IF cleaned_title = <<>>
           THEN Raise(p, r, "ValueError") /\ UNCHANGED articles
           ELSE IF ByTitleIexact(cleaned_title) # {}
           THEN \E existing \in ByTitleIexact(cleaned_title) :
                    ReturnExisting(p, r, existing, "ended")
           ELSE /\ req' = [req EXCEPT ![p] =
                            [r EXCEPT !.pc =
                                IF encyclopedai_slugify(slug_hint) # <<>>
                                THEN "by_hint" ELSE "by_slug"]]
                /\ UNCHANGED articles
    /\ UNCHANGED <<locks, now, nextId, killed, deleted, input, output>>

\* preferred_slug = encyclopedai_slugify(slug_hint or "") if slug_hint else ""
PreferredSlug(slug_hint) ==
    IF slug_hint # <<>> THEN encyclopedai_slugify(slug_hint) ELSE <<>>

\* lines 530-537: the lookup by the normalised slug hint
LookupByHint(p) ==
    /\ req[p].pc = "by_hint"
    /\ LET preferred_slug == PreferredSlug(req[p].hint)
       IN  IF BySlug(preferred_slug) # {}
           THEN \E existing \in BySlug(preferred_slug) :
                    ReturnExisting(p, req[p], existing, "ended")
           ELSE /\ req' = [req EXCEPT ![p].pc = "by_slug"]
                /\ UNCHANGED articles
    /\ UNCHANGED <<locks, now, nextId, calls, killed, deleted, input, output>>

\* variant: a non-empty normalised hint always wins over the title's slug
BaseSlugHintFirst(cleaned_title, slug_hint, call) ==
    LET hint_slug == PreferredSlug(slug_hint)
        title_slug == encyclopedai_slugify(cleaned_title)
        preferred_slug == IF hint_slug # <<>> THEN hint_slug ELSE title_slug
    IN  IF preferred_slug # <<>> THEN preferred_slug ELSE RandomSlug(call)

\* lines 539-550: the slug the article is looked up, locked and created under
BaseSlug(cleaned_title, slug_hint, call) ==
    LET hint_slug == PreferredSlug(slug_hint)
        title_slug == encyclopedai_slugify(cleaned_title)
        Has(str, c) == \E i \in 1..Len(str) : str[i] = c
        title_has_parentheses == Has(cleaned_title, "(") /\ Has(cleaned_title, ")")
        slug_has_parentheses == Has(title_slug, "(") /\ Has(title_slug, ")")
        hint_missing_parentheses ==
            hint_slug # <<>> /\ (~Has(hint_slug, "(") \/ ~Has(hint_slug, ")"))
        preferred_slug ==
            IF title_slug = <<>> THEN hint_slug
            ELSE IF title_has_parentheses /\ slug_has_parentheses
                    /\ hint_missing_parentheses
            THEN title_slug
            ELSE IF hint_slug = <<>> THEN title_slug
            ELSE hint_slug
    IN  IF preferred_slug # <<>> THEN preferred_slug ELSE RandomSlug(call)

\* lines 539-556: derive base_slug and look it up
LookupBySlug(p) ==
    /\ req[p].pc = "by_slug"
    /\ LET base_slug == BaseSlug(req[p].title, req[p].hint, req[p].call)
           r == [req[p] EXCEPT !.slug = base_slug]
       IN  IF BySlug(base_slug) # {}
           THEN \E existing \in BySlug(base_slug) :
                    ReturnExisting(p, r, existing, "ended")
           ELSE /\ req' = [req EXCEPT ![p] = [r EXCEPT !.pc = "quota"]]
                /\ UNCHANGED articles
    /\ UNCHANGED <<locks, now, nextId, calls, killed, deleted, input, output>>

\* Article.objects.filter(created_at__date=timezone.now().date()).count()
articles_created_today == Cardinality({a \in articles : a.created_day = Date(now)})

\* variant: the limit is compared with > instead of >=
LimitReachedOffByOne == articles_created_today > DAILY_ARTICLE_LIMIT

\* enforce_daily_article_limit raises
LimitReached == articles_created_today >= DAILY_ARTICLE_LIMIT

\* variant: the quota is checked after the lock row was written
EnforceLimitAfterLock(p) ==
    /\ req[p].pc = "quota"
    /\ LET r == [req[p] EXCEPT !.quotaChecked = TRUE, !.now = now]
       IN  IF LimitReached
           THEN /\ Raise(p, r, "DailyArticleLimitExceeded")
                /\ locks' = {l \in locks : l.slug # r.slug} \cup
                             {[slug |-> r.slug, title |-> r.title, token |-> r.call,
                               expires_at |-> now + ARTICLE_CREATION_LOCK_TTL]}
           ELSE /\ req' = [req EXCEPT ![p] = [r EXCEPT !.pc = "acquire"]]
                /\ UNCHANGED locks
    /\ UNCHANGED <<articles, now, nextId, calls, killed, deleted, input, output>>

\* line 558: enforce_daily_article_limit()
EnforceLimit(p) ==
    /\ req[p].pc = "quota"
    /\ LET r == [req[p] EXCEPT !.quotaChecked = TRUE, !.now = now]
       IN  IF LimitReached
           THEN Raise(p, r, "DailyArticleLimitExceeded")
           ELSE req' = [req EXCEPT ![p] = [r EXCEPT !.pc = "acquire"]]
    /\ UNCHANGED <<articles, locks, now, nextId, calls, killed, deleted, input, output>>

(***************************************************************************)
(* _acquire_article_creation_lock.  The body of transaction.atomic() is    *)
(* three statements.  DELETE and SELECT ... FOR UPDATE lock the rows they  *)
(* touch until the transaction ends, so a statement of another transaction *)
(* that touches such a row waits; rows another transaction has inserted or *)
(* deleted become visible when it commits.  Leaving the block by an        *)
(* exception rolls the transaction back.                                   *)
(***************************************************************************)
\* rows a transaction of another worker holds locked
LockedByOthers(p) == UNION {req[q].txDeleted : q \in Procs \ {p}}

\* lines 73-75: now = timezone.now(); token = shortuuid.uuid()
AcquireStart(p) ==
    /\ req[p].pc = "acquire"
    /\ req' = [req EXCEPT ![p].pc = "acq_check", ![p].now = now,
                          ![p].token = req[p].call]
    /\ UNCHANGED <<articles, locks, now, nextId, calls, killed, deleted, input, output>>

\* ArticleCreationLock.objects.filter(expires_at__lt=now)
ExpiredLocks(t) == {l \in locks : l.expires_at < t}

\* variant: expires_at is the timestamp of the call, without the time to live
NewLockExpiresNow(r) ==
    [slug |-> r.slug, title |-> r.title, token |-> r.token,
     expires_at |-> r.now]

\* the row this acquisition writes
NewLock(r) ==
    [slug |-> r.slug, title |-> r.title, token |-> r.token,
     expires_at |-> r.now + ARTICLE_CREATION_LOCK_TTL]

\* variant: ArticleCreationInProgress carries the caller's title instead of
\* the title of the existing row
AcquireCheckCallerTitle(p) ==
    /\ req[p].pc = "acq_check"
    /\ LET r == req[p]
           expired == ExpiredLocks(r.now)
           remaining == locks \ expired
           found == {l \in remaining : l.slug = r.slug}
       IN  /\ (expired \cup found) \cap LockedByOthers(p) = {}
           /\ IF found # {}
              THEN \E existing \in found :
                    IF existing.expires_at > r.now
                    THEN /\ Raise(p, [r EXCEPT !.excSlug = r.slug,
                                               !.excTitle = r.title],
                                  "ArticleCreationInProgress")
                         /\ UNCHANGED locks
                    ELSE /\ locks' = (remaining \ {existing}) \cup {NewLock(r)}
                         /\ req' = [req EXCEPT ![p].pc = "recheck",
                                       ![p].lockWrites = @ + 1 + Cardinality(expired)]
              ELSE /\ req' = [req EXCEPT ![p].pc = "acq_insert",
                                         ![p].txDeleted = expired]
                   /\ UNCHANGED locks
    /\ UNCHANGED <<articles, now, nextId, calls, killed, deleted, input, output>>

\* variant: a row found for the slug is never taken over, whatever its
\* expiry (existing.expires_at >= now raises)
AcquireCheckNoTakeover(p) ==
    /\ req[p].pc = "acq_check"
    /\ LET r == req[p]
           expired == ExpiredLocks(r.now)
           remaining == locks \ expired
           found == {l \in remaining : l.slug = r.slug}
       IN  /\ (expired \cup found) \cap LockedByOthers(p) = {}
           /\ IF found # {}
              THEN \E existing \in found :
                    /\ Raise(p, [r EXCEPT !.excSlug = existing.slug,
                                          !.excTitle = existing.title],
                             "ArticleCreationInProgress")
                    /\ UNCHANGED locks
              ELSE /\ req' = [req EXCEPT ![p].pc = "acq_insert",
                                         ![p].txDeleted = expired]
                   /\ UNCHANGED locks
    /\ UNCHANGED <<articles, now, nextId, calls, killed, deleted, input, output>>

\* variant: a row found for the slug is overwritten whatever its expiry
AcquireCheckAlwaysOverwrites(p) ==
    /\ req[p].pc = "acq_check"
    /\ LET r == req[p]
           expired == ExpiredLocks(r.now)
           remaining == locks \ expired
           found == {l \in remaining : l.slug = r.slug}
       IN  /\ (expired \cup found) \cap LockedByOthers(p) = {}
           /\ IF found # {}
              THEN \E existing \in found :
                    /\ locks' = (remaining \ {existing}) \cup {NewLock(r)}
                    /\ req' = [req EXCEPT ![p].pc = "recheck",
                                  ![p].lockWrites = @ + 1 + Cardinality(expired)]
              ELSE /\ req' = [req EXCEPT ![p].pc = "acq_insert",
                                         ![p].txDeleted = expired]
                   /\ UNCHANGED locks
    /\ UNCHANGED <<articles, now, nextId, calls, killed, deleted, input, output>>

\* lines 78-89: the cleanup DELETE, the SELECT ... FOR UPDATE of the slug's
\* row and, when a row is found, the raise or the UPDATE in place and commit
AcquireCheck(p) ==
    /\ req[p].pc = "acq_check"
    /\ LET r == req[p]
           expired == ExpiredLocks(r.now)
           remaining == locks \ expired
           found == {l \in remaining : l.slug = r.slug}
       IN  /\ (expired \cup found) \cap LockedByOthers(p) = {}
           /\ IF found # {}
              THEN \E existing \in found :
                    IF existing.expires_at > r.now
                    THEN /\ Raise(p, [r EXCEPT !.excSlug = existing.slug,
                                               !.excTitle = existing.title],
                                  "ArticleCreationInProgress")
                         /\ UNCHANGED locks
                    ELSE /\ locks' = (remaining \ {existing}) \cup {NewLock(r)}
                         /\ req' = [req EXCEPT ![p].pc = "recheck",
                                       ![p].lockWrites = @ + 1 + Cardinality(expired)]
              ELSE /\ req' = [req EXCEPT ![p].pc = "acq_insert",
                                         ![p].txDeleted = expired]
                   /\ UNCHANGED locks
    /\ UNCHANGED <<articles, now, nextId, calls, killed, deleted, input, output>>

\* variant: the cleanup DELETE is not part of the committed transaction and
\* the slug column is not unique, so the INSERT adds a row beside the old one
AcquireInsertKeepsExpired(p) ==
    /\ req[p].pc = "acq_insert"
    /\ locks' = locks \cup {NewLock(req[p])}
    /\ req' = [req EXCEPT ![p].pc = "recheck", ![p].txDeleted = {},
                          ![p].lockWrites = @ + 1]
    /\ UNCHANGED <<articles, now, nextId, calls, killed, deleted, input, output>>

\* variant: the cleanup DELETE is left out of the transaction
AcquireInsertWithoutCleanup(p) ==
    /\ req[p].pc = "acq_insert"
    /\ LET r == req[p]
       IN  IF \E l \in locks : l.slug = r.slug
           THEN /\ Raise(p, r, "IntegrityError")
                /\ UNCHANGED locks
           ELSE /\ locks' = locks \cup {NewLock(r)}
                /\ req' = [req EXCEPT ![p].pc = "recheck", ![p].txDeleted = {},
                              ![p].lockWrites = @ + 1]
    /\ UNCHANGED <<articles, now, nextId, calls, killed, deleted, input, output>>

\* lines 91-96: the INSERT and the commit; the unique index on slug refuses a
\* second row for the slug with django.db.IntegrityError
AcquireInsert(p) ==
    /\ req[p].pc = "acq_insert"
    /\ LET r == req[p]
           visible == locks \ r.txDeleted
       IN  IF \E l \in visible : l.slug = r.slug
           THEN /\ Raise(p, r, "IntegrityError")
                /\ UNCHANGED locks
           ELSE /\ locks' = visible \cup {NewLock(r)}
                /\ req' = [req EXCEPT ![p].pc = "recheck", ![p].txDeleted = {},
                              ![p].lockWrites = @ + 1 + Cardinality(r.txDeleted)]
    /\ UNCHANGED <<articles, now, nextId, calls, killed, deleted, input, output>>

\* ArticleCreationLock.objects.filter(slug=slug, token=token)
LocksOf(slug, token) == {l \in locks : l.slug = slug /\ l.token = token}

(***************************************************************************)
(* get_or_create_article, lines 561-593: the part that runs with the lock  *)
(***************************************************************************)
\* variant: no re-check after the lock was taken, the call goes on to
\* generate
RecheckSkipped(p) ==
    /\ req[p].pc = "recheck"
    /\ req' = [req EXCEPT ![p].pc = "generate"]
    /\ UNCHANGED <<articles, locks, now, nextId, calls, killed, deleted, input, output>>

\* lines 562-567: the re-check of the slug after the lock was taken
Recheck(p) ==
    /\ req[p].pc = "recheck"
    /\ IF BySlug(req[p].slug) # {}
       THEN \E existing \in BySlug(req[p].slug) :
                ReturnExisting(p, req[p], existing, "release")
       ELSE /\ req' = [req EXCEPT ![p].pc = "generate"]
            /\ UNCHANGED articles
    /\ UNCHANGED <<locks, now, nextId, calls, killed, deleted, input, output>>

\* variant: no try/finally, an exception of generate_article_content ends
\* the call at once
GenerateWithoutFinally(p, outcome) ==
    /\ req[p].pc = "generate"
    /\ IF outcome = "text"
       THEN req' = [req EXCEPT ![p].pc = "persist", ![p].invoked = TRUE,
                               ![p].content = req[p].call]
       ELSE Raise(p, [req[p] EXCEPT !.invoked = TRUE], outcome)
    /\ UNCHANGED <<articles, locks, now, nextId, calls, killed, deleted, input, output>>

\* variant: the row is inserted before the text is generated, so a failed
\* generation leaves a row without text behind
GenerateKeepsDraft(p, outcome) ==
    /\ req[p].pc = "generate"
    /\ req' = [req EXCEPT ![p] =
                IF outcome = "text"
                THEN [@ EXCEPT !.pc = "persist", !.invoked = TRUE,
                               !.content = req[p].call]
                ELSE [@ EXCEPT !.pc = "release", !.invoked = TRUE,
                               !.kind = outcome,
                               !.articleWrites =
                                   @ + (IF BySlug(req[p].slug) = {} THEN 1 ELSE 0)]]
    /\ IF outcome = "text" \/ BySlug(req[p].slug) # {}
       THEN UNCHANGED <<articles, nextId>>
       ELSE /\ articles' = articles \cup
                    {[id |-> nextId, title |-> req[p].title, slug |-> req[p].slug,
                      content |-> 0, summary_snippet |-> req[p].summary,
                      created_day |-> Date(now)]}
            /\ nextId' = nextId + 1
    /\ UNCHANGED <<locks, now, calls, killed, deleted, input, output>>

\* lines 569-575: generate_article_content returns text or raises
Generate(p, outcome) ==
    /\ req[p].pc = "generate"
    /\ req' = [req EXCEPT ![p] =
                IF outcome = "text"
                THEN [@ EXCEPT !.pc = "persist", !.invoked = TRUE,
                               !.content = req[p].call]
                ELSE [@ EXCEPT !.pc = "release", !.invoked = TRUE,
                               !.kind = outcome]]
    /\ UNCHANGED <<articles, locks, now, nextId, calls, killed, deleted, input, output>>

\* the row Article.objects.get_or_create(slug=base_slug, defaults=...) inserts
NewArticle(r) ==
    [id |-> nextId, title |-> r.title, slug |-> r.slug, content |-> r.content,
     summary_snippet |-> r.summary, created_day |-> Date(now)]

\* variant: create() instead of get_or_create(), on a slug column that is
\* not unique
PersistAlwaysInserts(p) ==
    /\ req[p].pc = "persist"
    /\ articles' = articles \cup {NewArticle(req[p])}
    /\ nextId' = nextId + 1
    /\ req' = [req EXCEPT ![p].pc = "release", ![p].kind = "ok",
                          ![p].article = nextId, ![p].created = TRUE,
                          ![p].articleWrites = @ + 1]
    /\ UNCHANGED <<locks, now, calls, killed, deleted, input, output>>

\* variant: update_or_create() instead of get_or_create(): a row that is
\* already there receives this call's title and content
PersistOverwrites(p) ==
    /\ req[p].pc = "persist"
    /\ IF BySlug(req[p].slug) # {}
       THEN /\ \E existing \in BySlug(req[p].slug) :
                    /\ articles' = (articles \ {existing}) \cup
                           {[existing EXCEPT !.title = req[p].title,
                                             !.content = req[p].content,
                                             !.summary_snippet = req[p].summary]}
                    /\ req' = [req EXCEPT ![p].pc = "release", ![p].kind = "ok",
                                          ![p].article = existing.id,
                                          ![p].created = FALSE,
                                          ![p].articleWrites = @ + 1]
            /\ UNCHANGED nextId
       ELSE /\ articles' = articles \cup {NewArticle(req[p])}
            /\ nextId' = nextId + 1
            /\ req' = [req EXCEPT ![p].pc = "release", ![p].kind = "ok",
                                  ![p].article = nextId, ![p].created = TRUE,
                                  ![p].articleWrites = @ + 1]
    /\ UNCHANGED <<locks, now, calls, killed, deleted, input, output>>

\* lines 576-591: get-or-create the row by slug, refresh the summary of a row
\* that was already there
Persist(p) ==
    /\ req[p].pc = "persist"
    /\ IF BySlug(req[p].slug) # {}
       THEN /\ \E existing \in BySlug(req[p].slug) :
                    ReturnExisting(p, req[p], existing, "release")
            /\ UNCHANGED nextId
       ELSE /\ articles' = articles \cup {NewArticle(req[p])}
            /\ nextId' = nextId + 1
            /\ req' = [req EXCEPT ![p].pc = "release", ![p].kind = "ok",
                                  ![p].article = nextId, ![p].created = TRUE,
                                  ![p].articleWrites = @ + 1]
    /\ UNCHANGED <<locks, now, calls, killed, deleted, input, output>>

\* the database refuses the statement of line 576
PersistFails(p) ==
    /\ req[p].pc = "persist"
    /\ req' = [req EXCEPT ![p].pc = "release", ![p].kind = "DatabaseError"]
    /\ UNCHANGED <<articles, locks, now, nextId, calls, killed, deleted, input, output>>

\* variant: the release filters on the slug alone
ReleaseBySlug(p) ==
    /\ req[p].pc = "release"
    /\ LET mine == {l \in locks : l.slug = req[p].slug}
       IN  /\ mine \cap LockedByOthers(p) = {}
           /\ locks' = locks \ mine
           /\ Finish(p, [req[p] EXCEPT !.lockWrites = @ + Cardinality(mine)])
    /\ UNCHANGED <<articles, now, nextId, calls, killed, deleted, input, output>>

\* lines 592-593 with _release_article_creation_lock: the finally block
\* deletes the row with this slug and token, then the call returns or raises
Release(p) ==
    /\ req[p].pc = "release"
    /\ LET mine == LocksOf(req[p].slug, req[p].token)
       IN  /\ mine \cap LockedByOthers(p) = {}
           /\ locks' = locks \ mine
           /\ Finish(p, [req[p] EXCEPT !.lockWrites = @ + Cardinality(mine)])
    /\ UNCHANGED <<articles, now, nextId, calls, killed, deleted, input, output>>

(***************************************************************************)
(* The environment.                                                        *)
(***************************************************************************)
\* the time to live of a lock passes
Tick ==
    /\ (now % MinutesPerDay) + ARTICLE_CREATION_LOCK_TTL <= MaxMinute
    /\ now' = now + ARTICLE_CREATION_LOCK_TTL
    /\ UNCHANGED <<articles, locks, nextId, calls, req, killed, deleted, input, output>>

\* the rest of the day passes
TickMidnight ==
    /\ Date(now) < MaxDays
    /\ now' = (Date(now) + 1) * MinutesPerDay
    /\ UNCHANGED <<articles, locks, nextId, calls, req, killed, deleted, input, output>>

\* the worker is terminated between acquiring the lock and the finally block
Crash(p) ==
    /\ req[p].pc \in {"recheck", "generate", "persist", "release"}
    /\ Cardinality(killed) < MaxCrashes
    /\ killed' = killed \cup {[slug |-> req[p].slug, token |-> req[p].token]}
    /\ Finish(p, [req[p] EXCEPT !.kind = "killed"])
    /\ UNCHANGED <<articles, locks, now, nextId, calls, deleted, input, output>>

\* article_delete, article_regenerate: staff delete an article
\* variant: regeneration rewrites the content of the row in place
RegenerateInPlace(a) ==
    /\ a \in articles
    /\ Cardinality(deleted) < MaxDeletes
    /\ articles' = (articles \ {a}) \cup {[a EXCEPT !.content = 0]}
    /\ deleted' = deleted \cup {a.id}
    /\ UNCHANGED <<locks, now, nextId, calls, req, killed, input, output>>

DeleteArticle(a) ==
    /\ a \in articles
    /\ Cardinality(deleted) < MaxDeletes
    /\ articles' = articles \ {a}
    /\ deleted' = deleted \cup {a.id}
    /\ UNCHANGED <<locks, now, nextId, calls, req, killed, input, output>>

Next ==
    \/ \E p \in Procs, r \in Requests : Call(p, r[1], r[2], r[3])
    \/ \E p \in Procs : LookupByHint(p)
    \/ \E p \in Procs : LookupBySlug(p)
    \/ \E p \in Procs : EnforceLimit(p)
    \/ \E p \in Procs : AcquireStart(p)
    \/ \E p \in Procs : AcquireCheck(p)
    \/ \E p \in Procs : AcquireInsert(p)
    \/ \E p \in Procs : Recheck(p)
    \/ \E p \in Procs, outcome \in GenerationOutcomes : Generate(p, outcome)
    \/ \E p \in Procs : Persist(p)
    \/ \E p \in Procs : PersistFails(p)
    \/ \E p \in Procs : Release(p)
    \/ \E p \in Procs : Crash(p)
    \/ Tick

Spec == Init /\ [][Next]_vars

(***************************************************************************)
(* One worker calling get_or_create_article again and again, each time     *)
(* with a topic no earlier call used, while the provider answers every     *)
(* request.                                                                *)
(***************************************************************************)
\* the topic of the k-th call: "2", "22", "222", ...
SeqTopic(k) == [i \in 1..k |-> "2"]

SeqCall == Call(1, SeqTopic(calls + 1), <<>>, <<>>)

SeqNext ==
    \/ SeqCall
    \/ LookupBySlug(1)
    \/ EnforceLimit(1)
    \/ AcquireStart(1)
    \/ AcquireCheck(1)
    \/ AcquireInsert(1)
    \/ Recheck(1)
    \/ Generate(1, "text")
    \/ Persist(1)
    \/ Release(1)
    \/ Tick
    \/ TickMidnight

SeqSpec == Init /\ [][SeqNext]_vars

(***************************************************************************)
(* Vocabulary of the properties.                                           *)
(***************************************************************************)
\* worker p is between a successful lock acquisition and the finally block
Held(p) == req[p].pc \in {"recheck", "generate", "persist", "release"}

\* the last call of worker p has returned or raised
Ended(p) == req[p].pc = "ended" /\ req[p].kind # "killed"

\* the call of worker p got past the lookups: it derived its slug, so its
\* title had no article when it started
Resolved(p) == req[p].slug # <<>>

\* the calls of workers p and q overlapped in time
Concurrent(p, q) ==
    /\ p # q
    /\ req[p].call > 0 /\ req[q].call > 0
    /\ IF req[p].call < req[q].call
       THEN req[p].pc # "ended" \/ req[p].endedAt >= req[q].call
       ELSE req[q].pc # "ended" \/ req[q].endedAt >= req[p].call

\* the call of worker p returned an article without creating it
ReturnedExisting(p) == req[p].kind = "ok" /\ ~req[p].created

\* expires_at of the lock worker p acquired
ExpiryOf(p) == req[p].now + ARTICLE_CREATION_LOCK_TTL

\* worker p moves in this step
Moves(p) == req'[p] # req[p]

(***************************************************************************)
(* C1                                                                      *)
(***************************************************************************)
\* C1 as stated: among concurrent calls that resolve to the same slug while
\* no article for it exists, at most one invokes generate_article_content
\* and every other call returns the finished article with created=false or
\* fails with ArticleCreationInProgress.
C1_AtMostOneInvokes ==
    \A p, q \in Procs :
        Concurrent(p, q) /\ Resolved(p) /\ req[p].slug = req[q].slug =>
            /\ ~(req[p].invoked /\ req[q].invoked)
            /\ Ended(q) /\ ~req[q].invoked =>
                 ReturnedExisting(q) \/ req[q].kind = "ArticleCreationInProgress"

(***************************************************************************)
(* C2                                                                      *)
(***************************************************************************)
\* C2 as stated: two concurrent calls for the same title that had no
\* article yet both return, return the same Article row, and exactly one of
\* them invoked generation.
C2_BothReturnSameArticle ==
    \A p, q \in Procs :
        Concurrent(p, q) /\ Resolved(p) /\ Resolved(q)
        /\ req[p].title = req[q].title /\ req[p].slug = req[q].slug =>
            /\ Ended(p) => req[p].kind = "ok"
            /\ Ended(p) /\ Ended(q) =>
                 /\ req[p].article = req[q].article
                 /\ req[p].invoked # req[q].invoked

\* C2 amended: of two concurrent calls for the same title and slug that had
\* no article yet, at most one returns created=true, and when both return
\* they return the same Article row.
C2_ReturnedCallsAgree ==
    \A p, q \in Procs :
        Concurrent(p, q) /\ Resolved(p) /\ Resolved(q)
        /\ req[p].title = req[q].title /\ req[p].slug = req[q].slug
        /\ Ended(p) /\ Ended(q) /\ req[p].kind = "ok" /\ req[q].kind = "ok" =>
            /\ req[p].article = req[q].article
            /\ ~(req[p].created /\ req[q].created)

\* both of two concurrent calls for one title returned the same row, one of
\* them having generated and created it
C2_Witness ==
    \E p, q \in Procs :
        /\ Concurrent(p, q) /\ Resolved(p) /\ Resolved(q)
        /\ req[p].title = req[q].title /\ req[p].slug = req[q].slug
        /\ Ended(p) /\ Ended(q)
        /\ req[p].kind = "ok" /\ req[p].created /\ req[p].invoked
        /\ ReturnedExisting(q) /\ req[q].article = req[p].article

(***************************************************************************)
(* C3                                                                      *)
(***************************************************************************)
\* C3: when worker p executes the SELECT of its acquisition while a lock row
\* for its slug exists with expires_at later than the current time, the call
\* raises ArticleCreationInProgress carrying the slug and the title of that
\* row, and the lock table is left as it was.
C3_UnexpiredLockRefuses ==
    [][\A p \in Procs : \A l \in locks :
         /\ req[p].pc = "acq_check" /\ Moves(p)
         /\ l.slug = req[p].slug /\ l.expires_at > now
         => /\ req'[p].pc = "ended"
            /\ req'[p].kind = "ArticleCreationInProgress"
            /\ req'[p].excSlug = l.slug
            /\ req'[p].excTitle = l.title
            /\ locks' = locks]_vars

\* a call was refused with the title of the lock row, which is not its own
C3_Witness ==
    \E p \in Procs : \E l \in locks :
        /\ Ended(p) /\ req[p].kind = "ArticleCreationInProgress"
        /\ l.slug = req[p].slug /\ l.expires_at > now
        /\ req[p].excSlug = l.slug /\ req[p].excTitle = l.title
        /\ req[p].title # l.title

(***************************************************************************)
(* C4                                                                      *)
(***************************************************************************)
\* C4: an acquisition that finds a lock row for its slug whose expires_at is
\* before the acquisition's timestamp does not raise: its cleanup removes
\* the row and its INSERT succeeds, after which the table holds exactly one
\* row for the slug, with the caller's title, a token different from the old
\* row's and expires_at = timestamp + TTL.
C4_ExpiredLockIsReplaced ==
    [][\A p \in Procs :
         LET mine(rows) == {l \in rows : l.slug = req[p].slug}
         IN  /\ req[p].pc = "acq_check" /\ Moves(p)
                /\ (\E l \in mine(locks) : l.expires_at < req[p].now)
                => /\ req'[p].pc = "acq_insert"
                   /\ mine(locks) \subseteq req'[p].txDeleted
             /\ req[p].pc = "acq_insert" /\ Moves(p) /\ mine(req[p].txDeleted) # {}
                => /\ req'[p].pc = "recheck"
                   /\ mine(locks') =
                        {[slug |-> req[p].slug, title |-> req[p].title,
                          token |-> req[p].token,
                          expires_at |-> req[p].now + ARTICLE_CREATION_LOCK_TTL]}
                   /\ \A old \in mine(req[p].txDeleted) : old.token # req[p].token]_vars

\* a worker has just taken the lock of a slug whose earlier holder was
\* terminated: the terminated holder's row is gone and the only row of the
\* slug is the new holder's
C4_Witness ==
    \E p \in Procs : \E k \in killed :
        /\ req[p].pc = "recheck" /\ req[p].slug = k.slug
        /\ req[p].lockWrites = 2
        /\ LocksOf(k.slug, k.token) = {}
        /\ {l \in locks : l.slug = k.slug} = {NewLock(req[p])}

(***************************************************************************)
(* C5                                                                      *)
(***************************************************************************)
\* C5: the release at the end of a call removes exactly the rows with its
\* slug and its token: every other row, a row of the same slug with another
\* holder's token included, stays, and with no such row nothing changes.
C5_ReleaseDeletesOwnRowOnly ==
    [][\A p \in Procs :
         req[p].pc = "release" /\ req'[p].pc = "ended" /\ req'[p].kind # "killed"
         => locks' = {l \in locks :
                        ~(l.slug = req[p].slug /\ l.token = req[p].token)}]_vars

\* a call whose lock expired and was re-acquired by another worker has
\* ended, its release having deleted nothing, and the new holder's row is
\* still there
C5_Witness ==
    \E p, q \in Procs :
        /\ p # q /\ Ended(p) /\ req[p].invoked /\ req[p].lockWrites = 1
        /\ Held(q) /\ req[q].slug = req[p].slug
        /\ LocksOf(req[q].slug, req[q].token) # {}

(***************************************************************************)
(* C6                                                                      *)
(***************************************************************************)
\* C6: once a call has returned or raised, no lock row bears the token it
\* acquired; every lock row belongs to a call that is still between
\* acquisition and release or to a worker that was terminated there.
C6_LockReleasedWhenCallEnds ==
    /\ \A p \in Procs : Ended(p) => \A l \in locks : l.token # req[p].token
    /\ \A l \in locks :
          \/ \E p \in Procs : Held(p) /\ req[p].token = l.token
          \/ \E k \in killed : k.token = l.token

\* a call that took the lock and whose generation raised has ended
C6_Witness ==
    \E p \in Procs :
        /\ Ended(p) /\ req[p].invoked /\ req[p].lockWrites >= 2
        /\ req[p].kind \in {"RuntimeError", "ImproperlyConfigured"}

(***************************************************************************)
(* C7                                                                      *)
(***************************************************************************)
\* C7: a call that raised ArticleCreationInProgress,
\* DailyArticleLimitExceeded or RuntimeError wrote no Article row (none was
\* inserted or updated by it, none carries text it generated) and no lock
\* row bears its token.
C7_FailureLeavesNothingBehind ==
    \A p \in Procs :
        Ended(p) /\ req[p].kind \in {"ArticleCreationInProgress",
                                     "DailyArticleLimitExceeded", "RuntimeError"}
        => /\ req[p].articleWrites = 0
           /\ \A a \in articles : a.content # req[p].call
           /\ \A l \in locks : l.token # req[p].token

\* one call failed in generation and a concurrent call for the same slug was
\* turned away
C7_Witness ==
    \E p, q \in Procs :
        /\ Ended(p) /\ req[p].kind = "RuntimeError"
        /\ Ended(q) /\ req[q].kind = "ArticleCreationInProgress"
        /\ req[p].slug = req[q].slug

(***************************************************************************)
(* C8                                                                      *)
(***************************************************************************)
\* C8: while the first day lasts, the k-th of the sequential calls with new
\* topics creates its article when k <= DAILY_ARTICLE_LIMIT and otherwise
\* fails with DailyArticleLimitExceeded without invoking generation, the
\* table holding DAILY_ARTICLE_LIMIT articles.
C8_QuotaSequence ==
    Date(now) = 0 /\ req[1].pc = "ended" =>
        IF req[1].call <= DAILY_ARTICLE_LIMIT
        THEN req[1].kind = "ok" /\ req[1].created /\ req[1].invoked
        ELSE /\ req[1].kind = "DailyArticleLimitExceeded"
             /\ ~req[1].invoked
             /\ Cardinality(articles) = DAILY_ARTICLE_LIMIT

\* call number DAILY_ARTICLE_LIMIT + 1 of the day has been refused
C8_Witness ==
    /\ Date(now) = 0 /\ req[1].pc = "ended"
    /\ req[1].call = DAILY_ARTICLE_LIMIT + 1
    /\ req[1].kind = "DailyArticleLimitExceeded"

(***************************************************************************)
(* C9                                                                      *)
(***************************************************************************)
\* C9: the step in which a call raises DailyArticleLimitExceeded is its
\* quota check; it leaves the lock table, expired rows included, as it was,
\* and the call has started no acquisition, written no lock row and invoked
\* no generation before it.
C9_QuotaFailureTouchesNoLock ==
    [][\A p \in Procs :
         Moves(p) /\ req'[p].kind = "DailyArticleLimitExceeded"
         => /\ req[p].pc = "quota"
            /\ locks' = locks
            /\ req'[p].token = 0 /\ req'[p].lockWrites = 0
            /\ ~req'[p].invoked]_vars

\* a call was refused by the quota while an expired lock row was in the table
C9_Witness ==
    \E p \in Procs : \E l \in locks :
        /\ Ended(p) /\ req[p].kind = "DailyArticleLimitExceeded"
        /\ l.expires_at < req[p].now

(***************************************************************************)
(* C10                                                                     *)
(***************************************************************************)
\* C10: a call whose stripped topic equals, up to case, the title of a
\* stored article ends in its first step: it returns such an article with
\* created=False, having checked no quota, started no acquisition, changed
\* no lock row and invoked no generation.
C10_TitleMatchShortCircuits ==
    [][\A p \in Procs :
         /\ req[p].pc \in {"idle", "ended"} /\ Moves(p)
         /\ \E a \in articles : lower(a.title) = lower(req'[p].title)
         => /\ req'[p].pc = "ended"
            /\ req'[p].kind = "ok" /\ ~req'[p].created
            /\ \E a \in articles :
                  a.id = req'[p].article /\ lower(a.title) = lower(req'[p].title)
            /\ ~req'[p].quotaChecked /\ ~req'[p].invoked
            /\ req'[p].token = 0 /\ req'[p].lockWrites = 0
            /\ locks' = locks]_vars

\* a call got the stored article for a title that differs in case, while the
\* daily quota is exhausted and an unexpired lock row exists for the slug
C10_Witness ==
    \E p \in Procs : \E a \in articles : \E l \in locks :
        /\ Ended(p) /\ ReturnedExisting(p) /\ req[p].article = a.id
        /\ req[p].slug = <<>>
        /\ req[p].title # a.title /\ lower(req[p].title) = lower(a.title)
        /\ LimitReached
        /\ l.slug = a.slug /\ l.expires_at > now

(***************************************************************************)
(* C11                                                                     *)
(***************************************************************************)
\* the call of worker p returned from the re-check under the lock
ReturnedAtRecheck(p) ==
    /\ ReturnedExisting(p) /\ req[p].token # 0 /\ ~req[p].invoked

\* C11: the step after a successful acquisition, taken while an article
\* with the call's slug exists, makes the call return that article with
\* created=False without invoking generation and without touching title or
\* content of any row; once such a call has ended, no lock row bears its
\* token.
C11_RecheckReturnsExisting ==
    /\ [][\A p \in Procs :
            req[p].pc = "recheck" /\ BySlug(req[p].slug) # {} /\ Moves(p)
            /\ req'[p].kind # "killed" =>
                /\ req'[p].pc = "release" /\ req'[p].kind = "ok"
                /\ ~req'[p].created /\ ~req'[p].invoked
                /\ \E a \in BySlug(req[p].slug) : req'[p].article = a.id
                /\ {<<a.id, a.slug, a.title, a.content>> : a \in articles'} =
                   {<<a.id, a.slug, a.title, a.content>> : a \in articles}
                /\ locks' = locks]_vars
    /\ [](\A p \in Procs :
            Ended(p) /\ ReturnedAtRecheck(p) =>
                \A l \in locks : l.token # req[p].token)

\* a call that found no article before the lock returned the article another
\* call had stored by the time it held the lock, and has released its lock
C11_Witness ==
    \E p \in Procs : \E a \in articles :
        /\ Ended(p) /\ ReturnedAtRecheck(p) /\ req[p].quotaChecked
        /\ req[p].lockWrites >= 2
        /\ req[p].article = a.id /\ a.slug = req[p].slug
        /\ a.content # req[p].call

(***************************************************************************)
(* C12                                                                     *)
(***************************************************************************)
\* C12: the persistence step of a call, taken while an article with the
\* call's slug exists, makes the call return that article with
\* created=False and leaves id, slug, title and content of every row as
\* they were; and no two Article rows ever share a slug.
C12_GetOrCreateBySlug ==
    /\ [][\A p \in Procs :
            req[p].pc = "persist" /\ BySlug(req[p].slug) # {} /\ Moves(p)
            /\ req'[p].kind \notin {"killed", "DatabaseError"} =>
                /\ req'[p].kind = "ok" /\ ~req'[p].created
                /\ \E a \in BySlug(req[p].slug) : req'[p].article = a.id
                /\ {<<a.id, a.slug, a.title, a.content>> : a \in articles'} =
                   {<<a.id, a.slug, a.title, a.content>> : a \in articles}]_vars
    /\ [](\A a, b \in articles : a.slug = b.slug => a = b)

\* a call generated text while another writer stored the article for its
\* slug, and returned the stored article, which carries the other text
C12_Witness ==
    \E p \in Procs : \E a \in articles :
        /\ Ended(p) /\ ReturnedExisting(p) /\ req[p].invoked
        /\ req[p].article = a.id /\ a.slug = req[p].slug
        /\ a.content # req[p].call

(***************************************************************************)
(* C13                                                                     *)
(***************************************************************************)
\* the lock rows whose holder was terminated before it released
AbandonedRows == {l \in locks : \E k \in killed : k.token = l.token}

\* C13: a lock row whose holder never releases it leaves the table only
\* in a step of an acquisition whose timestamp is not before the row's
\* expires_at; an acquisition for its slug with an earlier timestamp is
\* refused with ArticleCreationInProgress and leaves the row; one with a
\* timestamp at or after expires_at succeeds and ends with exactly one
\* row for the slug, its own.
C13_AbandonedLockExpires ==
    [][\A l \in AbandonedRows :
          /\ l \notin locks' =>
                \E p \in Procs : Moves(p) /\ req[p].now >= l.expires_at
                                  /\ req[p].pc \in {"acq_check", "acq_insert"}
          /\ \A p \in Procs :
                req[p].pc = "acq_check" /\ req[p].slug = l.slug /\ Moves(p) =>
                    IF req[p].now < l.expires_at
                    THEN /\ req'[p].kind = "ArticleCreationInProgress"
                         /\ l \in locks'
                    ELSE /\ req'[p].pc \in {"recheck", "acq_insert"}
                         /\ req'[p].pc = "recheck" =>
                              {m \in locks' : m.slug = l.slug} =
                              {[slug |-> l.slug, title |-> req[p].title,
                                token |-> req[p].token,
                                expires_at |-> ExpiryOf(p)]}
          /\ \A p \in Procs :
                req[p].pc = "acq_insert" /\ req[p].slug = l.slug /\ Moves(p)
                /\ l \in req[p].txDeleted =>
                    /\ req'[p].pc = "recheck"
                    /\ {m \in locks' : m.slug = l.slug} =
                       {[slug |-> l.slug, title |-> req[p].title,
                         token |-> req[p].token, expires_at |-> ExpiryOf(p)]}
      ]_vars

\* the holder of the lock of a slug was terminated, and a later call for the
\* slug, made when the lock had expired, generated and stored the article
C13_Witness ==
    \E k \in killed : \E p, q \in Procs : \E a \in articles :
        /\ req[q].pc = "ended" /\ req[q].kind = "killed"
        /\ req[q].token = k.token /\ req[q].slug = k.slug
        /\ req[p].call > req[q].endedAt
        /\ req[p].now >= ExpiryOf(q)
        /\ Ended(p) /\ req[p].kind = "ok" /\ req[p].created /\ req[p].invoked
        /\ req[p].slug = k.slug
        /\ a.id = req[p].article /\ a.slug = k.slug

(***************************************************************************)
(* One worker calling get_or_create_article with titles and slug hints     *)
(* that carry parentheses, hyphens and characters no slug keeps.           *)
(***************************************************************************)
\* topic, summary_hint, slug_hint
HintRequests ==
    {<< <<"X", " ", "(", "y", ")">>, <<>>, <<"x", "-", "y">> >>,
     << <<"X", " ", "(", "y", ")">>, <<>>, <<"x", "(", "2", ")">> >>,
     << <<"X", " ", "(", "y", ")">>, <<>>, <<"x", ")">> >>,
     << <<"X", " ", "(", "y", ")">>, <<>>, <<"-">> >>,
     << <<"X", " ", "(", "y", ")">>, <<>>, <<>> >>,
     << <<"Y", " ", "2">>, <<>>, <<"x", "-", "y">> >>,
     << <<"Y", " ", "2">>, <<>>, <<"(", "x">> >>,
     << <<"Y", " ", "2">>, <<>>, <<>> >>,
     << <<"!">>, <<>>, <<"X", "_", "y">> >>,
     << <<"!">>, <<>>, <<>> >>}

HintNext ==
    \/ \E r \in HintRequests : Call(1, r[1], r[2], r[3])
    \/ LookupByHint(1)
    \/ LookupBySlug(1)
    \/ EnforceLimit(1)
    \/ AcquireStart(1)
    \/ AcquireCheck(1)
    \/ AcquireInsert(1)
    \/ Recheck(1)
    \/ Generate(1, "text")
    \/ Persist(1)
    \/ Release(1)
    \/ TickMidnight

HintSpec == Init /\ [][HintNext]_vars

(***************************************************************************)
(* C14                                                                     *)
(***************************************************************************)
\* character c occurs in str
Has(str, c) == \E i \in 1..Len(str) : str[i] = c

HasParentheses(str) == Has(str, "(") /\ Has(str, ")")

TitleChars == {"X", "y", " ", "-", "(", ")", "_", "!"}

Titles == UNION {[1..n -> TitleChars] : n \in 0..MaxTitleLen}

\* the tables and workers play no part
Untouched ==
    /\ articles = {} /\ locks = {} /\ now = 0 /\ nextId = 1 /\ calls = 0
    /\ req = [p \in Procs |-> Idle] /\ killed = {} /\ deleted = {}

SlugifyInit ==
    /\ Untouched
    /\ input \in Titles
    /\ output = <<>>

\* encyclopedai_slugify(T), then encyclopedai_slugify of what it returned
Slugify ==
    /\ Len(output) < 2
    /\ output' = Append(output,
                        encyclopedai_slugify(IF output = <<>> THEN input
                                             ELSE output[Len(output)]))
    /\ UNCHANGED <<articles, locks, now, nextId, calls, req, killed, deleted, input>>

SlugifyNext == Slugify

SlugifySpec == SlugifyInit /\ [][SlugifyNext]_vars

(***************************************************************************)
(* C15                                                                     *)
(***************************************************************************)
\* C15: encyclopedai_slugify applied to the slug it returned for a title
\* returns that slug again.
C15_SlugifyIdempotent ==
    Len(output) = 2 => output[2] = output[1]

\* the function was applied twice to a title it had to change: the slug is
\* not the title, keeps a parenthesis and a hyphen
C15_Witness ==
    /\ Len(output) = 2 /\ output[1] # <<>> /\ output[1] # input
    /\ \E i, j \in 1..Len(output[1]) : output[1][i] = "(" /\ output[1][j] = "-"
    /\ \E i \in 1..Len(input) : input[i] = "_"

(***************************************************************************)
(* extract_outgoing_links.  A content is a sequence of characters in which *)
(* the literal "/entries/" of the pattern is one element.                  *)
(***************************************************************************)
\* the characters that end the slug group [^/)#?]+
LinkStop == {"/", ")", "#", "?", "/entries/", "/other/"}

\* index of the first element of s at or after i that is in chars, 0 if none
RECURSIVE FirstIndex(_, _, _)
FirstIndex(s, i, chars) ==
    IF i > Len(s) THEN 0
    ELSE IF s[i] \in chars THEN i
    ELSE FirstIndex(s, i + 1, chars)

\* index of the last element of the slug group that starts at i
SlugEnd(s, i) ==
    LET stop == FirstIndex(s, i, LinkStop)
    IN  IF stop = 0 THEN Len(s) ELSE stop - 1

\* the slugs _OUTGOING_LINK_PATTERN.finditer matches from position i on, in
\* order: "[", one or more characters up to the first "]", "](/entries/"
\* and the longest non-empty run without "/", ")", "#" and "?"
RECURSIVE finditer(_, _)
finditer(content, i) ==
    IF i > Len(content) THEN <<>>
    ELSE IF content[i] # "[" THEN finditer(content, i + 1)
    ELSE LET j == FirstIndex(content, i + 1, {"]"})
         IN  IF j > i + 1 /\ j + 3 <= Len(content)
                /\ content[j + 1] = "(" /\ content[j + 2] = "/entries/"
                /\ SlugEnd(content, j + 3) >= j + 3
             THEN <<SubSeq(content, j + 3, SlugEnd(content, j + 3))>>
                  \o finditer(content, SlugEnd(content, j + 3) + 1)
             ELSE finditer(content, i + 1)

Range(s) == {s[i] : i \in 1..Len(s)}

\* the lists that hold every element of set S once
Orderings(S) ==
    {s \in [1..Cardinality(S) -> S] : Range(s) = S}

\* variant: the matches are returned as found, without set()
extract_links_as_found(content) ==
    IF content = <<>> THEN {<<>>} ELSE {finditer(content, 1)}

\* the lists extract_outgoing_links may return: list(set(...)) fixes no order
extract_outgoing_links(content) ==
    IF content = <<>> THEN {<<>>} ELSE Orderings(Range(finditer(content, 1)))

(***************************************************************************)
(* extract_outgoing_links applied on its own.                              *)
(***************************************************************************)
\* a link in markdown: [text](/entries/target), the target given with what
\* follows the slug
Text(text, prefix, target) == <<"[">> \o text \o <<"]", "(", prefix>> \o target \o <<")">>

Segments ==
    {Text(<<"a">>, "/entries/", <<"f", "o", "o">>),
     Text(<<"b">>, "/entries/", <<"f", "o", "o", "#", "x">>),
     Text(<<"a">>, "/entries/", <<"f", "o", "o", "/">>),
     Text(<<"b">>, "/entries/", <<"b", "?", "q">>),
     Text(<<"a">>, "/entries/", <<"b", "/", "c">>),
     Text(<<>>, "/entries/", <<"c">>),
     Text(<<"a">>, "/other/", <<"c">>),
     <<" ", "a", "n", "d", " ">>}

Contents ==
    UNION {{Concat(ss) : ss \in [1..n -> Segments]} : n \in 0..MaxSegments}

LinksInit ==
    /\ Untouched
    /\ input \in Contents
    /\ output = <<>>

ExtractLinks ==
    /\ output = <<>>
    /\ \E links \in extract_outgoing_links(input) : output' = <<links>>
    /\ UNCHANGED <<articles, locks, now, nextId, calls, req, killed, deleted, input>>

LinksNext == ExtractLinks

LinksSpec == LinksInit /\ [][LinksNext]_vars

(***************************************************************************)
(* C19                                                                     *)
(***************************************************************************)
\* segment seg occurs in content
Occurs(seg, content) ==
    \E k \in 1..Len(content) :
        k + Len(seg) - 1 <= Len(content)
        /\ SubSeq(content, k, k + Len(seg) - 1) = seg

\* C19: the list extract_outgoing_links returns holds no slug twice and no
\* slug with a fragment, a query or a path in it; it holds the slug foo
\* exactly when a link to /entries/foo, /entries/foo#x or /entries/foo/
\* occurs, and the slug b exactly when a link to /entries/b?q or
\* /entries/b/c occurs; links with an empty text or to another prefix add
\* nothing; [a](/entries/foo) and [b](/entries/foo#x) yield exactly foo and
\* the empty content yields the empty list.
C19_LinksOnceAndStripped ==
    Len(output) = 1 =>
        LET links == output[1]
            foo == <<"f", "o", "o">>
            toFoo == {Text(<<"a">>, "/entries/", foo),
                      Text(<<"b">>, "/entries/", foo \o <<"#", "x">>),
                      Text(<<"a">>, "/entries/", foo \o <<"/">>)}
            toB == {Text(<<"b">>, "/entries/", <<"b", "?", "q">>),
                    Text(<<"a">>, "/entries/", <<"b", "/", "c">>)}
        IN  /\ \A i, j \in 1..Len(links) : links[i] = links[j] => i = j
            /\ \A i \in 1..Len(links) :
                   \A k \in 1..Len(links[i]) : links[i][k] \notin LinkStop
            /\ foo \in Range(links) <=> \E seg \in toFoo : Occurs(seg, input)
            /\ <<"b">> \in Range(links) <=> \E seg \in toB : Occurs(seg, input)
            /\ Range(links) \subseteq {foo, <<"b">>}
            /\ input = <<>> => links = <<>>
            /\ input = Text(<<"a">>, "/entries/", foo) \o <<" ", "a", "n", "d", " ">>
                         \o Text(<<"b">>, "/entries/", foo \o <<"#", "x">>)
                  => links = <<foo>>

\* the function was applied to [a](/entries/foo) and [b](/entries/foo#x)
C19_Witness ==
    /\ Len(output) = 1
    /\ input = Text(<<"a">>, "/entries/", <<"f", "o", "o">>)
                  \o <<" ", "a", "n", "d", " ">>
                  \o Text(<<"b">>, "/entries/", <<"f", "o", "o", "#", "x">>)
    /\ output[1] = << <<"f", "o", "o">> >>

(***************************************************************************)
(* Article.save: the slug of a row saved without one, and outgoing_links.  *)
(* Rows written here carry content as text and the outgoing_links column.  *)
(***************************************************************************)
\* Article.objects.filter(slug=slug_candidate).exclude(pk=self.pk).exists()
SlugTaken(slug, pk) == \E a \in articles : a.slug = slug /\ a.id # pk

\* the while loop of save: base_slug, base_slug-2, base_slug-3, ...
RECURSIVE slug_candidate(_, _, _)
slug_candidate(base_slug, index, pk) ==
    LET candidate == IF index = 1 THEN base_slug
                     ELSE base_slug \o <<"-", ToString(index)>>
    IN  IF SlugTaken(candidate, pk)
        THEN slug_candidate(base_slug, index + 1, pk)
        ELSE candidate

\* models.py lines 134-145: the slug of the instance after the first block
SavedSlug(title, slug, pk) ==
    IF slug # <<>> THEN slug
    ELSE LET title_slug == encyclopedai_slugify(title)
             base_slug == IF title_slug # <<>> THEN title_slug ELSE RandomSlug(pk)
         IN  slug_candidate(base_slug, 1, pk)

\* variant: save leaves outgoing_links at the default of the column
SaveNewWithoutLinks(title, slug, content, summary) ==
    /\ Cardinality(articles) < MaxArticles
    /\ ~SlugTaken(SavedSlug(title, slug, nextId), nextId)
    /\ articles' = articles \cup
            {[id |-> nextId, title |-> title,
              slug |-> SavedSlug(title, slug, nextId), content |-> content,
              summary_snippet |-> summary, outgoing_links |-> <<>>,
              created_day |-> Date(now)]}
    /\ nextId' = nextId + 1

\* variant: save takes the title's slug as it is, without the while loop
SaveNewWithoutSuffix(title, slug, content, summary) ==
    /\ Cardinality(articles) < MaxArticles
    /\ \E links \in extract_outgoing_links(content) :
          articles' = {a \in articles :
                          a.slug # (IF slug # <<>> THEN slug
                                    ELSE encyclopedai_slugify(title))} \cup
            {[id |-> nextId, title |-> title,
              slug |-> IF slug # <<>> THEN slug ELSE encyclopedai_slugify(title),
              content |-> content,
              summary_snippet |-> summary, outgoing_links |-> links,
              created_day |-> Date(now)]}
    /\ nextId' = nextId + 1

\* Article(title=..., slug=..., content=..., summary_snippet=...).save(): the
\* INSERT of a new row; the unique index refuses a slug another row has
SaveNew(title, slug, content, summary) ==
    /\ Cardinality(articles) < MaxArticles
    /\ ~SlugTaken(SavedSlug(title, slug, nextId), nextId)
    /\ \E links \in extract_outgoing_links(content) :
          articles' = articles \cup
            {[id |-> nextId, title |-> title,
              slug |-> SavedSlug(title, slug, nextId), content |-> content,
              summary_snippet |-> summary, outgoing_links |-> links,
              created_day |-> Date(now)]}
    /\ nextId' = nextId + 1

\* existing.save(update_fields=["summary_snippet"]): the slug is set, the
\* UPDATE writes the summary column alone
SaveSummary(a, summary) ==
    /\ a \in articles
    /\ summary # <<>> /\ a.summary_snippet # summary
    /\ articles' = (articles \ {a}) \cup {[a EXCEPT !.summary_snippet = summary]}
    /\ UNCHANGED nextId

\* article.save() on a stored row, as the migration does for every row: the
\* slug is set, outgoing_links is recomputed, every column is written
Resave(a) ==
    /\ a \in articles
    /\ \E links \in extract_outgoing_links(a.content) :
          articles' = (articles \ {a}) \cup
            {[a EXCEPT !.slug = SavedSlug(a.title, a.slug, a.id),
                       !.outgoing_links = links]}
    /\ UNCHANGED <<locks, now, nextId, calls, req, killed, deleted, input, output>>

\* Article.objects.create(title=..., content=...)
Create(title, content) ==
    /\ SaveNew(title, <<>>, content, <<>>)
    /\ UNCHANGED <<locks, now, calls, req, killed, deleted, input, output>>

\* get_or_create_article run from start to end with no other request in
\* between: the three lookups with the summary refresh, the quota, and the
\* creation under base_slug with the text the generation returned
GetOrCreate(topic, summary_hint, slug_hint, content) ==
    LET cleaned_title == strip(topic)
        cleaned_summary == strip(summary_hint)
        base_slug == BaseSlug(cleaned_title, slug_hint, nextId)
        found == IF ByTitleIexact(cleaned_title) # {}
                 THEN ByTitleIexact(cleaned_title)
                 ELSE IF BySlug(PreferredSlug(slug_hint)) # {}
                 THEN BySlug(PreferredSlug(slug_hint))
                 ELSE BySlug(base_slug)
    IN  /\ cleaned_title # <<>>
        /\ IF found # {}
           THEN \E existing \in found : SaveSummary(existing, cleaned_summary)
           ELSE /\ ~LimitReached
                /\ SaveNew(cleaned_title, base_slug, content, cleaned_summary)
        /\ UNCHANGED <<locks, now, calls, req, killed, deleted, input, output>>

\* [a](/entries/<slug>/), the form the generation prompt asks for
LinkTo(slug) == Text(<<"a">>, "/entries/", slug \o <<"/">>)

Plain == <<"x", ".">>

\* title and content of the rows created directly
DirectRequests ==
    {<< <<"X">>, LinkTo(<<"y">>) >>,
     << <<"Y">>, LinkTo(<<"2">>) >>,
     << <<"2">>, Plain >>,
     << <<"!">>, Plain >>,
     << <<"Y">>, LinkTo(<<"y">>) \o <<"\n">> \o LinkTo(<<"x">>) >>}

\* topic, summary_hint, slug_hint and generated text of the service calls
ServiceRequests ==
    {<< <<" ", "x">>, <<"s">>, <<>>, LinkTo(<<"y">>) >>,
     << <<"Y">>, <<>>, <<"x", "-", "2">>, Plain >>,
     << <<"!">>, <<>>, <<>>, Plain >>}

SaveNext ==
    \/ \E r \in DirectRequests : Create(r[1], r[2])
    \/ \E r \in ServiceRequests : GetOrCreate(r[1], r[2], r[3], r[4])
    \/ \E a \in articles : Resave(a)
    \/ TickMidnight

SaveSpec == Init /\ [][SaveNext]_vars

(***************************************************************************)
(* C17                                                                     *)
(***************************************************************************)
\* the k-th slug the while loop of save tries
Candidate(base_slug, k) ==
    IF k = 1 THEN base_slug ELSE base_slug \o <<"-", ToString(k)>>

\* C17: every Article row has a non-empty slug no other row has; a row
\* created without a slug receives the first of base, base-2, base-3, ...
\* that no row has, base being the slug of its title or, when that is
\* empty, a random article-<id>; and a row created by get_or_create_article
\* for a title and hint that yield no slug receives a random article-<id>.
C17_SlugNeverEmptyAlwaysUnique ==
    /\ [](\A a, b \in articles :
            /\ a.slug # <<>>
            /\ a.slug = b.slug => a = b)
    /\ [][\A r \in DirectRequests :
            Create(r[1], r[2]) =>
                \E a \in articles' \ articles :
                    LET title_slug == encyclopedai_slugify(r[1])
                        base == IF title_slug # <<>> THEN title_slug
                                ELSE <<"article-", ToString(a.id)>>
                        slugs == {b.slug : b \in articles}
                    IN  \E k \in 1..(Cardinality(articles) + 1) :
                            /\ a.slug = Candidate(base, k)
                            /\ \A j \in 1..(k - 1) : Candidate(base, j) \in slugs]_vars
    /\ [][\A r \in ServiceRequests :
            GetOrCreate(r[1], r[2], r[3], r[4])
            /\ encyclopedai_slugify(strip(r[1])) = <<>>
            /\ (r[3] = <<>> \/ encyclopedai_slugify(r[3]) = <<>>) =>
                \A a \in articles' \ articles :
                    a.slug = <<"article-", ToString(a.id)>>]_vars

\* a slug and its -2 were taken when a row with that title was saved without
\* a slug, so it received -3; another row received a random slug
C17_Witness ==
    \E a, b, c \in articles :
        /\ a.slug = <<"x">> /\ b.slug = <<"x", "-", "2">>
        /\ c.slug = <<"x", "-", "3">> /\ c.title = a.title /\ c.id > b.id

(***************************************************************************)
(* C18                                                                     *)
(***************************************************************************)
\* C18: in every row the stored outgoing_links holds, as a set, the slugs
\* the pattern finds in the stored content.
C18_OutgoingLinksMatchContent ==
    \A a \in articles :
        Range(a.outgoing_links) = Range(finditer(a.content, 1))

\* a row whose content links to two articles was created, and a row with a
\* link had its summary refreshed by a later call
C18_Witness ==
    \E a, b \in articles :
        /\ Cardinality(Range(a.outgoing_links)) = 2
        /\ b.title = <<"X">> /\ b.summary_snippet = <<"s">>
        /\ b.outgoing_links = << <<"y">> >>

(***************************************************************************)
(* A title with disambiguation parentheses: its slug, the rows created     *)
(* for it directly and the row get_or_create_article creates for it.       *)
(***************************************************************************)
TitleInit ==
    /\ Untouched
    /\ input \in Titles
    /\ output = <<>>

\* encyclopedai_slugify(title)
TitleSlugify == output = <<>> /\ Slugify

\* the titles rows are created for: words, spaces and both parentheses
DisambiguatedTitle(title) ==
    /\ Has(title, "(") /\ Has(title, ")")
    /\ Range(title) \subseteq {"X", "y", " ", "(", ")"}

\* Article.objects.create(title=title, content=...)
TitleCreate ==
    /\ output # <<>> /\ DisambiguatedTitle(input)
    /\ Create(input, Plain)

\* get_or_create_article(title)
TitleGetOrCreate ==
    /\ output # <<>> /\ DisambiguatedTitle(input)
    /\ GetOrCreate(input, <<>>, <<>>, Plain)

TitleNext ==
    \/ TitleSlugify
    \/ TitleCreate
    \/ TitleGetOrCreate

TitleSpec == TitleInit /\ [][TitleNext]_vars

(***************************************************************************)
(* C16                                                                     *)
(***************************************************************************)
Parentheses(s) == SelectSeq(s, LAMBDA c : c \in {"(", ")"})

Letters(s) == SelectSeq(s, LAMBDA c : c \in {"X", "y", "x"})

\* C16 as stated: the slug keeps the parentheses of the title in order and
\* number, and every row saved without a slug or created by
\* get_or_create_article for the title has that slug.
C16_EveryRowGetsTitleSlug ==
    output # <<>> =>
        /\ Parentheses(output[1]) = Parentheses(input)
        /\ \A a \in articles : a.slug = output[1]

\* C16 amended: the slug keeps the parentheses of the title in order and
\* number and its letters in order and lower case, holds nothing but those
\* and single hyphens between them, and X (y) gives x-(y); the row that
\* get_or_create_article creates for the title without a slug hint has that
\* slug, and so has a row saved without a slug unless another row has it
\* already, in which case the row has that slug followed by -2, -3, ...
C16_ParenthesesKeptInSlug ==
    output # <<>> =>
        LET slug == output[1]
        IN  /\ Parentheses(slug) = Parentheses(input)
            /\ Letters(slug) = lower(Letters(input))
            /\ \A i \in 1..Len(slug) : slug[i] \in {"x", "y", "-", "(", ")"}
            /\ \A i \in 1..Len(slug) :
                   slug[i] = "-" =>
                       /\ i > 1 /\ i < Len(slug)
                       /\ slug[i - 1] \notin {"-", "("}
                       /\ slug[i + 1] \notin {"-", ")"}
            /\ input = <<"X", " ", "(", "y", ")">> =>
                   slug = <<"x", "-", "(", "y", ")">>
            /\ \A a \in articles :
                   \/ a.slug = slug
                   \/ /\ \E b \in articles : b.slug = slug /\ b.id < a.id
                      /\ \E k \in 2..Cardinality(articles) :
                             a.slug = slug \o <<"-", ToString(k)>>
            /\ \A a \in articles : a.id = 1 => a.slug = slug

\* X (y) was slugified and two rows with that title were created: the first
\* has the slug, the second the slug followed by -2
C16_Witness ==
    /\ input = <<"X", " ", "(", "y", ")">>
    /\ output = << <<"x", "-", "(", "y", ")">> >>
    /\ \E a, b \in articles :
          /\ a.id = 1 /\ a.slug = output[1] /\ a.title = input
          /\ b.id = 2 /\ b.slug = output[1] \o <<"-", "2">> /\ b.title = input

(***************************************************************************)
(* _collect_incoming_link_briefings                                        *)
(***************************************************************************)
max_items == 5

lines_before == 2

lines_after == 2

\* str.splitlines(): the lines of a text, without the line ends
RECURSIVE splitlines(_)
splitlines(text) ==
    IF text = <<>> THEN <<>>
    ELSE LET nl == FirstIndex(text, 1, {"\n"})
         IN  IF nl = 0 THEN <<text>>
             ELSE <<SubSeq(text, 1, nl - 1)>>
                  \o splitlines(SubSeq(text, nl + 1, Len(text)))

\* "\n".join(lines)
RECURSIVE join_lines(_)
join_lines(lines) ==
    IF lines = <<>> THEN <<>>
    ELSE IF Len(lines) = 1 THEN lines[1]
    ELSE lines[1] \o <<"\n">> \o join_lines(Tail(lines))

\* where a link target that continues at position k of line ends: an
\* optional "/", an optional fragment or query up to the next ")", then
\* ")"; 0 when the rest does not match
LinkEnd(line, k) ==
    LET k1 == IF k <= Len(line) /\ line[k] = "/" THEN k + 1 ELSE k
        k2 == IF k1 <= Len(line) /\ line[k1] \in {"#", "?"}
              THEN FirstIndex(line, k1 + 1, {")"})
              ELSE k1
    IN  IF k2 > 0 /\ k2 <= Len(line) /\ line[k2] = ")" THEN k2 ELSE 0

\* group(1) of the matches of the pattern for slug in line from position i
\* on: [text](/entries/<slug>, compared without case, and the ending above
RECURSIVE anchors(_, _, _)
anchors(line, slug, i) ==
    IF i > Len(line) THEN <<>>
    ELSE IF line[i] # "[" THEN anchors(line, slug, i + 1)
    ELSE LET j == FirstIndex(line, i + 1, {"]"})
             k == j + 3 + Len(slug)
         IN  IF j > i + 1 /\ k - 1 <= Len(line)
                /\ line[j + 1] = "(" /\ line[j + 2] = "/entries/"
                /\ lower(SubSeq(line, j + 3, k - 1)) = lower(slug)
                /\ LinkEnd(line, k) > 0
             THEN <<SubSeq(line, i + 1, j - 1)>>
                  \o anchors(line, slug, LinkEnd(line, k) + 1)
             ELSE anchors(line, slug, i + 1)

\* one line of the excerpt as plain text: _render_snippet_markdown turns
\* [text](url) into an anchor element, strip_tags leaves its text
RECURSIVE plain_line(_, _)
plain_line(line, i) ==
    IF i > Len(line) THEN <<>>
    ELSE LET j == IF line[i] = "[" THEN FirstIndex(line, i + 1, {"]"}) ELSE 0
             close == IF j > i + 1 /\ j + 2 <= Len(line) /\ line[j + 1] = "("
                         /\ line[j + 2] # ")"
                      THEN FirstIndex(line, j + 2, {")"}) ELSE 0
         IN  IF close > 0
             THEN SubSeq(line, i + 1, j - 1) \o plain_line(line, close + 1)
             ELSE <<line[i]>> \o plain_line(line, i + 1)

\* the non-blank lines of the excerpt as plain text, joined again
_strip_markdown_from_excerpt(text) ==
    LET plain == [i \in 1..Len(splitlines(text)) |->
                     strip(plain_line(splitlines(text)[i], 1))]
    IN  strip(join_lines(SelectSeq(plain, LAMBDA l : l # <<>>)))

\* Truncator(excerpt).chars(600)
Truncate(text) ==
    IF Len(text) <= 600 THEN text ELSE SubSeq(text, 1, 599) \o <<"...">>

\* the briefings line idx of the article yields, one for each match
line_briefings(article, lines, idx, target_slug) ==
    LET found == anchors(lines[idx], target_slug, 1)
        start_idx == IF idx - lines_before > 1 THEN idx - lines_before ELSE 1
        end_idx == IF idx + lines_after < Len(lines) THEN idx + lines_after
                   ELSE Len(lines)
        excerpt == Truncate(strip(join_lines(SubSeq(lines, start_idx, end_idx))))
    IN  IF found = <<>> \/ excerpt = <<>> THEN <<>>
        ELSE [m \in 1..Len(found) |->
                 [pk |-> article.id, title |-> article.title, raw |-> excerpt,
                  excerpt |-> _strip_markdown_from_excerpt(excerpt),
                  anchor_text |-> strip(found[m])]]

\* the briefings of the article from line idx on, in line order
RECURSIVE article_briefings(_, _, _, _)
article_briefings(article, lines, idx, target_slug) ==
    IF idx > Len(lines) THEN <<>>
    ELSE line_briefings(article, lines, idx, target_slug)
         \o article_briefings(article, lines, idx + 1, target_slug)

\* the briefings whose key (pk, excerpt, anchor_text) was not seen before
\* and whose plain excerpt is not empty
RECURSIVE unseen(_, _)
unseen(found, seen) ==
    IF found = <<>> THEN <<>>
    ELSE LET b == Head(found)
             key == <<b.pk, b.raw, b.anchor_text>>
         IN  IF key \in seen \/ b.excerpt = <<>>
             THEN unseen(Tail(found), seen \cup {key})
             ELSE <<[title |-> b.title, excerpt |-> b.excerpt,
                     anchor_text |-> b.anchor_text]>>
                  \o unseen(Tail(found), seen \cup {key})

\* code points of the characters titles are made of
CharRank(c) ==
    CASE c = " " -> 32 [] c = "!" -> 33 [] c = "(" -> 40 [] c = ")" -> 41
      [] c = "-" -> 45 [] c = "2" -> 50 [] c = "X" -> 88 [] c = "Y" -> 89
      [] c = "_" -> 95 [] c = "x" -> 120 [] c = "y" -> 121 [] OTHER -> 0

\* title s sorts before title t
RECURSIVE TitleLess(_, _)
TitleLess(s, t) ==
    IF t = <<>> THEN FALSE
    ELSE IF s = <<>> THEN TRUE
    ELSE IF CharRank(Head(s)) # CharRank(Head(t))
    THEN CharRank(Head(s)) < CharRank(Head(t))
    ELSE TitleLess(Tail(s), Tail(t))

\* variant: the query does not exclude the article of the slug itself
linking_including_target(cleaned_slug) ==
    LET linking == {a \in articles : cleaned_slug \in Range(a.outgoing_links)}
    IN  {s \in Orderings(linking) :
            \A i, j \in 1..Len(s) : i < j => ~TitleLess(s[j].title, s[i].title)}

\* the orders in which the query may return the articles that link to the
\* slug: by title, rows with equal titles in any order
linking_articles(cleaned_slug) ==
    LET linking == {a \in articles :
                       cleaned_slug \in Range(a.outgoing_links)
                       /\ a.slug # cleaned_slug}
    IN  {s \in Orderings(linking) :
            \A i, j \in 1..Len(s) : i < j => ~TitleLess(s[j].title, s[i].title)}

\* variant: the list is returned whole, however long
collect_without_limit(target_slug, ordered) ==
    LET cleaned_slug == strip(target_slug)
        found == Concat([i \in 1..Len(ordered) |->
                    article_briefings(ordered[i], splitlines(ordered[i].content),
                                      1, cleaned_slug)])
    IN  IF cleaned_slug = <<>> THEN <<>> ELSE unseen(found, {})

\* the list the function returns when the query returns the linking
\* articles in the given order
_collect_incoming_link_briefings(target_slug, ordered) ==
    LET cleaned_slug == strip(target_slug)
        found == Concat([i \in 1..Len(ordered) |->
                    article_briefings(ordered[i], splitlines(ordered[i].content),
                                      1, cleaned_slug)])
        kept == unseen(found, {})
    IN  IF cleaned_slug = <<>> THEN <<>>
        ELSE IF Len(kept) > max_items THEN SubSeq(kept, 1, max_items) ELSE kept

(***************************************************************************)
(* Articles are created, then the briefings for a slug are collected.      *)
(***************************************************************************)
BriefingTargets == {<<"x">>, <<"y">>, <<"2">>}

\* _collect_incoming_link_briefings(target_slug)
CollectBriefings(target_slug) ==
    /\ output = <<>>
    /\ input' = target_slug
    /\ \E ordered \in linking_articles(strip(target_slug)) :
          output' = <<_collect_incoming_link_briefings(target_slug, ordered)>>
    /\ UNCHANGED <<articles, locks, now, nextId, calls, req, killed, deleted>>

BriefingNext ==
    \/ \E r \in DirectRequests : output = <<>> /\ Create(r[1], r[2])
    \/ \E target_slug \in BriefingTargets : CollectBriefings(target_slug)

BriefingSpec == Init /\ [][BriefingNext]_vars

(***************************************************************************)
(* C20: with A (slug x) linking to /entries/y/, B (slug y) linking to      *)
(* /entries/2/ and C (slug 2), the briefings collected for y are drawn     *)
(* from A only: there is one, and each has A's title. In every table each  *)
(* briefing has the title of an article other than the target's whose      *)
(* content links to the target.                                            *)
(***************************************************************************)
ArticleA == <<<<"X">>, <<"x">>, LinkTo(<<"y">>)>>

ArticleB == <<<<"Y">>, <<"y">>, LinkTo(<<"2">>)>>

ArticleC == <<<<"2">>, <<"2">>, Plain>>

ChainOfThree ==
    /\ Cardinality(articles) = 3
    /\ {<<a.title, a.slug, a.content>> : a \in articles}
         = {ArticleA, ArticleB, ArticleC}

C20_BriefingsOnlyFromLinkers ==
    output # <<>> =>
        /\ \A i \in 1..Len(output[1]) :
              \E a \in articles :
                  /\ a.title = output[1][i].title
                  /\ a.slug # input
                  /\ input \in Range(finditer(a.content, 1))
        /\ (ChainOfThree /\ input = <<"y">>) =>
              /\ output[1] # <<>>
              /\ \A i \in 1..Len(output[1]) : output[1][i].title = <<"X">>

C20_Witness ==
    /\ ChainOfThree
    /\ input = <<"y">>
    /\ output = <<<<[title |-> <<"X">>, excerpt |-> <<"a">>,
                     anchor_text |-> <<"a">>]>>>>

(***************************************************************************)
(* C26                                                                     *)
(***************************************************************************)
\* C26 as stated: whatever the interleaving of concurrent calls, the number
\* of articles created on one calendar day never exceeds the daily limit.
C26_DailyLimitNeverExceeded ==
    \A a \in articles :
        Cardinality({b \in articles : b.created_day = a.created_day})
            <= DAILY_ARTICLE_LIMIT

(***************************************************************************)
(* C27                                                                     *)
(***************************************************************************)
\* the call of worker p wrote its lock row
Acquired(p) == req[p].lockWrites > 0

\* the acquisition of worker p raised
AcquisitionFailed(p) == Ended(p) /\ req[p].token # 0 /\ ~Acquired(p)

\* C27 as stated: of two concurrent acquisitions for one slug, one obtains
\* its token and the other fails with ArticleCreationInProgress, never
\* with a different error.
C27_ContentionRaisesInProgress ==
    \A p, q \in Procs :
        (Concurrent(p, q) /\ req[p].slug = req[q].slug
         /\ Acquired(p) /\ AcquisitionFailed(q)) =>
            /\ req[q].kind = "ArticleCreationInProgress"
            /\ req[q].excSlug = req[p].slug

(***************************************************************************)
(* C28: while every holder is within the time to live of its lock, no two  *)
(* calls hold the lock of one slug: between an acquisition and its release *)
(* no other acquisition for the slug succeeds, so no two calls generate    *)
(* content for the same slug at the same time.                             *)
(***************************************************************************)
\* the lock worker p acquired has not reached its expires_at
WithinTTL(p) == now < ExpiryOf(p)

C28_OneHolderWithinTTL ==
    \A p, q \in Procs :
        (p # q /\ Held(p) /\ Held(q) /\ req[p].slug = req[q].slug) =>
            ~(WithinTTL(p) /\ WithinTTL(q))

\* worker p generates within the time to live of its lock while the
\* concurrent acquisition of worker q for the same slug was refused
C28_Witness ==
    \E p, q \in Procs :
        /\ p # q
        /\ req[p].pc = "generate" /\ WithinTTL(p)
        /\ req[q].call > req[p].call
        /\ AcquisitionFailed(q)
        /\ req[q].kind = "ArticleCreationInProgress"
        /\ req[q].excSlug = req[p].slug

(***************************************************************************)
(* Callers of _acquire_article_creation_lock and                           *)
(* _release_article_creation_lock: each worker acquires the lock of a      *)
(* slug, holds it, and releases it or is terminated.                       *)
(***************************************************************************)
MaxAcquisitions == 3

\* the arguments of an acquisition: slug, title
LockRequests == {<< <<"x">>, <<"X">> >>, << <<"y">>, <<"Y">> >>}

\* _acquire_article_creation_lock(slug, title) is called
AcquireCall(p, slug, title) ==
    /\ req[p].pc \in {"idle", "ended"}
    /\ calls < MaxAcquisitions
    /\ calls' = calls + 1
    /\ req' = [req EXCEPT ![p] =
                [Idle EXCEPT !.pc = "acquire", !.call = calls + 1,
                             !.slug = slug, !.title = title]]
    /\ UNCHANGED <<articles, locks, now, nextId, killed, deleted, input, output>>

\* the caller works under the lock, then turns to releasing it
Hold(p) ==
    /\ req[p].pc = "recheck"
    /\ req' = [req EXCEPT ![p].pc = "release"]
    /\ UNCHANGED <<articles, locks, now, nextId, calls, killed, deleted, input, output>>

LockNext ==
    \/ \E p \in Procs, r \in LockRequests : AcquireCall(p, r[1], r[2])
    \/ \E p \in Procs : AcquireStart(p)
    \/ \E p \in Procs : AcquireCheck(p)
    \/ \E p \in Procs : AcquireInsert(p)
    \/ \E p \in Procs : Hold(p)
    \/ \E p \in Procs : Release(p)
    \/ \E p \in Procs : Crash(p)
    \/ Tick

LockSpec == Init /\ [][LockNext]_vars

\* the acquisition of worker p returns its token in this step
Acquires(p) ==
    req[p].pc \in {"acq_check", "acq_insert"} /\ req'[p].pc = "recheck"

\* the acquisition of worker p raises in this step
AcquireRaises(p) ==
    req[p].pc \in {"acq_check", "acq_insert"} /\ req'[p].pc = "ended"

(***************************************************************************)
(* C29                                                                     *)
(***************************************************************************)
\* C29 as stated: after any acquisition attempt, whether it returns a token
\* or raises ArticleCreationInProgress, no lock row whose expires_at was
\* before the timestamp of the call remains.
C29_EveryAttemptCleansUp ==
    [][\A p \in Procs :
          (Acquires(p) \/ AcquireRaises(p)) =>
              \A l \in locks' : ~(l.expires_at < req[p].now)]_vars

\* C29: an acquisition that returns a token has removed the lock rows whose
\* expires_at was before its timestamp when its DELETE ran; an acquisition
\* that raises is rolled back and leaves the table as it was.
C29_SuccessfulAcquisitionCleansUp ==
    [][\A p \in Procs :
          /\ (req[p].pc = "acq_check" /\ Moves(p)) =>
                IF req'[p].pc = "acq_insert"
                THEN req'[p].txDeleted = ExpiredLocks(req[p].now)
                ELSE IF req'[p].pc = "recheck"
                THEN ExpiredLocks(req[p].now) \cap locks' = {}
                ELSE locks' = locks
          /\ (req[p].pc = "acq_insert" /\ Moves(p)) =>
                IF req'[p].pc = "recheck"
                THEN req[p].txDeleted \cap locks' = {}
                ELSE locks' = locks]_vars

\* an acquisition was refused while an abandoned row of another slug had
\* expired before its timestamp, and the row is still there
C29_Witness ==
    \E q \in Procs :
        /\ AcquisitionFailed(q)
        /\ req[q].kind = "ArticleCreationInProgress"
        /\ \E l \in AbandonedRows :
              l.expires_at < req[q].now /\ l.slug # req[q].slug

(***************************************************************************)
(* C30: the lock table holds at most one row per slug and no two rows      *)
(* share a token; an acquisition that returns installs a row with the      *)
(* title of the caller, a token no acquisition known to the system used,   *)
(* and expires_at = timestamp of the call + the time to live.              *)
(***************************************************************************)
\* the tokens of the rows, of the other workers' calls and of the
\* terminated holders
KnownTokens(p) ==
    {l.token : l \in locks} \cup {k.token : k \in killed}
        \cup {req[q].token : q \in Procs \ {p}}

C30_OneRowPerSlugFreshToken ==
    /\ [](\A l, m \in locks : (l.slug = m.slug \/ l.token = m.token) => l = m)
    /\ [][\A p \in Procs :
            Acquires(p) =>
                /\ req[p].token \notin KnownTokens(p)
                /\ \E l \in locks' :
                      /\ l.slug = req[p].slug
                      /\ l.token = req[p].token
                      /\ l.title = req[p].title
                      /\ l.expires_at = req[p].now + ARTICLE_CREATION_LOCK_TTL]_vars

\* two rows are in the table, one of them written over the expired row of
\* a terminated holder
C30_Witness ==
    /\ Cardinality(locks) = 2
    /\ \E p \in Procs, k \in killed :
          /\ Held(p) /\ k.slug = req[p].slug /\ k.token # req[p].token
          /\ LocksOf(req[p].slug, req[p].token) # {}

(***************************************************************************)
(* generate_search_results                                                 *)
(***************************************************************************)
MaxResults == 3

\* parsed[:5]
ResultCap == 5

\* the first value of suffix the while loop tries
FirstSuffix == 2

\* the while loop of lines 815-819: base, base-2, base-3, ... until the
\* candidate is not in used_slugs
RECURSIVE unused_slug(_, _, _)
unused_slug(base_slug, suffix, used_slugs) ==
    LET candidate == base_slug \o <<"-", ToString(suffix)>>
    IN  IF candidate \in used_slugs
        THEN unused_slug(base_slug, suffix + 1, used_slugs)
        ELSE candidate

\* lines 810-812: the slug sent with the item, or else the slug of its title
first_slug(from_slug, title) ==
    IF from_slug # <<>> THEN from_slug ELSE encyclopedai_slugify(title)

\* variant: a slug in use receives the suffix 2 without a further test
disambiguate_once(base_slug, used_slugs) ==
    IF base_slug = <<>> \/ base_slug \notin used_slugs THEN base_slug
    ELSE base_slug \o <<"-", ToString(FirstSuffix)>>

\* lines 813-819: no slug, the slug itself, or the slug with a suffix
disambiguate(base_slug, used_slugs) ==
    IF base_slug = <<>> \/ base_slug \notin used_slugs THEN base_slug
    ELSE unused_slug(base_slug, FirstSuffix, used_slugs)

\* lines 803-819: the slug of an item, <<>> when the item is skipped
item_slug(item, used_slugs) ==
    IF ~item.dict \/ strip(item.title) = <<>> \/ strip(item.snippet) = <<>>
    THEN <<>>
    ELSE disambiguate(
             first_slug(IF strip(item.slug) # <<>>
                        THEN encyclopedai_slugify(strip(item.slug)) ELSE <<>>,
                        strip(item.title)),
             used_slugs)

\* lines 827-845: the article an item names with its article_id; 0 stands
\* for an item without the field
matched_article(item) == {a \in articles : a.id = item.article_id}

\* lines 822-845: the entry of an item whose slug is result_slug
entry(item, result_slug, matched) ==
    IF matched # {}
    THEN [title |-> strip(item.title),
          slug |-> (CHOOSE a \in matched : TRUE).slug,
          article_id |-> item.article_id]
    ELSE [title |-> strip(item.title), slug |-> result_slug, article_id |-> 0]

\* lines 803-854: what one item adds to parsed, nothing or its entry
added(item, result_slug) ==
    IF result_slug = <<>> THEN <<>>
    ELSE <<entry(item, result_slug, matched_article(item))>>

\* lines 800-854: the loop over raw_results
RECURSIVE parse_results(_, _, _)
parse_results(raw_results, parsed, used_slugs) ==
    IF raw_results = <<>> THEN parsed
    ELSE CHOOSE result \in
             {parse_results(Tail(raw_results), parsed \o new,
                            used_slugs \cup {new[i].slug : i \in 1..Len(new)})
                : new \in {added(Head(raw_results),
                                 item_slug(Head(raw_results), used_slugs))}} : TRUE

\* the ways a call ends
Returned(parsed) == [kind |-> "ok", results |-> parsed, requests |-> 1]

Raised(kind, requests) == [kind |-> kind, results |-> <<>>, requests |-> requests]

\* the loop over the tool calls ended without a return
NoResult == [kind |-> "continue", results |-> <<>>, requests |-> 1]

\* lines 855-858: return parsed[:5], or break
return_or_break(parsed) ==
    IF parsed = <<>> THEN NoResult
    ELSE IF Len(parsed) > ResultCap THEN Returned(SubSeq(parsed, 1, ResultCap))
    ELSE Returned(parsed)

\* lines 782-858: the loop over the tool calls of one message
RECURSIVE scan_tool_calls(_)
scan_tool_calls(tool_calls) ==
    IF tool_calls = <<>> THEN NoResult
    ELSE IF Head(tool_calls).name # "submit_search_results"
            \/ Head(tool_calls).arguments = "malformed"
    THEN scan_tool_calls(Tail(tool_calls))
    ELSE IF Head(tool_calls).arguments = "not_object"
    THEN Raised("AttributeError", 1)
    ELSE return_or_break(parse_results(Head(tool_calls).results, <<>>, {}))

\* lines 775-859: the loop over the choices
RECURSIVE scan_choices(_)
scan_choices(choices) ==
    IF choices = <<>> THEN Raised("RuntimeError", 1)
    ELSE CHOOSE outcome \in
             {IF result.kind = "continue" THEN scan_choices(Tail(choices))
              ELSE result : result \in {scan_tool_calls(Head(choices))}} : TRUE

\* generate_search_results(query) when the provider answers with response
generate_search_results(query, response) ==
    IF strip(query) = <<>> THEN Raised("ValueError", 0)
    ELSE IF response.transport_error THEN Raised("RuntimeError", 1)
    ELSE scan_choices(response.choices)

(***************************************************************************)
(* The responses of the provider.                                          *)
(***************************************************************************)
Item(title, snippet, slug, article_id) ==
    [dict |-> TRUE, title |-> title, snippet |-> snippet, slug |-> slug,
     article_id |-> article_id]

\* items of a response: a plain one, one whose slug differs in case only,
\* one without a slug, one whose slug is already suffixed, one that names
\* an article of the catalogue, one without a title, one without a
\* derivable slug, and an entry that is not an object
Items ==
    {Item(<<"X">>, <<"s">>, <<"x">>, 0),
     Item(<<"Y">>, <<"s">>, <<"X">>, 0),
     Item(<<"X", " ">>, <<"s">>, <<>>, 0),
     Item(<<"Y">>, <<"s">>, <<"x", "-", "2">>, 0),
     Item(<<"Y">>, <<"s">>, <<"x">>, 1),
     Item(<<" ">>, <<"s">>, <<"x">>, 0),
     Item(<<"!">>, <<"s">>, <<" ">>, 0),
     [Item(<<"X">>, <<"s">>, <<"x">>, 0) EXCEPT !.dict = FALSE]}

ResultLists == UNION {[1..n -> Items] : n \in 0..MaxResults}

\* responses with more results than are kept
LongLists ==
    {[i \in 1..n |-> Item(<<"X">>, <<"s">>, <<"x">>, 0)] : n \in 5..6}

ToolCall(name, arguments, results) ==
    [name |-> name, arguments |-> arguments, results |-> results]

Submit(results) == ToolCall("submit_search_results", "object", results)

\* tool calls the loop passes over, raises on, or breaks at
OtherCalls ==
    {ToolCall("other", "object", <<Item(<<"X">>, <<"s">>, <<"x">>, 0)>>),
     ToolCall("submit_search_results", "malformed", <<>>),
     ToolCall("submit_search_results", "not_object", <<>>),
     Submit(<<>>)}

Answer(choices) == [transport_error |-> FALSE, choices |-> choices]

Responses ==
    {[transport_error |-> TRUE, choices |-> <<>>], Answer(<<>>), Answer(<< <<>> >>)}
    \cup {Answer(<< <<c>> >>) : c \in OtherCalls}
    \cup {Answer(<< <<Submit(rs)>> >>) : rs \in ResultLists \cup LongLists}
    \cup {Answer(<< <<c, Submit(<<i>>)>> >>) : c \in OtherCalls, i \in Items}
    \cup {Answer(<< <<c>>, <<Submit(<<i>>)>> >>) : c \in OtherCalls, i \in Items}

\* an article enters the catalogue
SearchCreate ==
    /\ output = <<>>
    /\ articles = {}
    /\ \E r \in DirectRequests : r[1] = <<"X">> /\ Create(r[1], r[2])

\* generate_search_results(query)
Search(query, response) ==
    /\ output = <<>>
    /\ input' = <<query, response>>
    /\ output' = <<generate_search_results(query, response)>>
    /\ UNCHANGED <<articles, locks, now, nextId, calls, req, killed, deleted>>

\* the queries; the response does not matter to a blank one
Queries == {<<"q">>, <<" ">>}

SearchNext ==
    \/ SearchCreate
    \/ \E query \in Queries, response \in Responses :
          /\ strip(query) = <<>> => response = Answer(<<>>)
          /\ Search(query, response)

SearchSpec == Init /\ [][SearchNext]_vars

(***************************************************************************)
(* Vocabulary of the search properties.                                    *)
(***************************************************************************)
\* generate_search_results ran with a query that is not blank
Searched == output # <<>> /\ strip(input[1]) # <<>>

\* the response was one message with one submit_search_results call
OneSubmit ==
    /\ Searched
    /\ ~input[2].transport_error
    /\ Len(input[2].choices) = 1
    /\ Len(input[2].choices[1]) = 1
    /\ input[2].choices[1][1].name = "submit_search_results"
    /\ input[2].choices[1][1].arguments = "object"

\* the slug the response gives an item, before any suffix
SentSlug(item) ==
    first_slug(IF strip(item.slug) # <<>>
               THEN encyclopedai_slugify(strip(item.slug)) ELSE <<>>,
               strip(item.title))

\* the item has a title, a snippet and a derivable slug
Usable(item) ==
    /\ item.dict
    /\ strip(item.title) # <<>>
    /\ strip(item.snippet) # <<>>
    /\ SentSlug(item) # <<>>

\* the results of the response that can be used, in order
SentResults == SelectSeq(input[2].choices[1][1].results, Usable)

\* slug is base_slug with the first suffix from 2 on that is not in earlier
FirstFreeSuffix(slug, base_slug, earlier) ==
    \E n \in FirstSuffix..(FirstSuffix + Cardinality(earlier)) :
        /\ slug = Candidate(base_slug, n)
        /\ slug \notin earlier
        /\ \A m \in FirstSuffix..(n - 1) : Candidate(base_slug, m) \in earlier

C22_ThreeToSixResults ==
    (Searched /\ output[1].kind = "ok") =>
        Len(output[1].results) \in 3..6

(***************************************************************************)
(* C24                                                                     *)
(***************************************************************************)
\* C24 as stated: a call makes exactly one provider request, and it either
\* returns a list that is not empty or raises RuntimeError.
C24_OneRequestResultOrRuntimeError ==
    Searched =>
        /\ output[1].requests = 1
        /\ \/ output[1].kind = "ok" /\ output[1].results # <<>>
           \/ output[1].kind = "RuntimeError"

(***************************************************************************)
(* generate_article_content: the draft request, then the link request.     *)
(***************************************************************************)
MaxBlocks == 2

\* the texts a block of a provider response may hold
BlockTexts == {<<>>, <<" ">>, <<"a">>, <<"\n", "b", " ">>}

\* what the provider does with a request: the transport fails, or a
\* response arrives with its text blocks
Replies ==
    {[failed |-> TRUE, blocks |-> <<>>]}
    \cup {[failed |-> FALSE, blocks |-> b] :
            b \in UNION {[1..n -> BlockTexts] : n \in 0..MaxBlocks}}

\* "\n\n".join(parts)
RECURSIVE join_blocks(_)
join_blocks(parts) ==
    IF parts = <<>> THEN <<>>
    ELSE IF Len(parts) = 1 THEN parts[1]
    ELSE parts[1] \o <<"\n", "\n">> \o join_blocks(Tail(parts))

\* _extract_text_blocks: the blocks that are not empty
_extract_text_blocks(response) == SelectSeq(response.blocks, LAMBDA part : part # <<>>)

\* "\n\n".join(_extract_text_blocks(response)).strip()
body(response) == strip(join_blocks(_extract_text_blocks(response)))

\* the call in progress: where it is and the requests it has sent, each
\* with what came back
Generating(pc, requests) == [pc |-> pc, requests |-> requests]

\* generate_article_content is called; _get_client raises when no API key
\* is configured
GenerateCall(configured) ==
    /\ input = <<>>
    /\ IF configured
       THEN /\ input' = Generating("draft", <<>>)
            /\ UNCHANGED output
       ELSE /\ input' = Generating("ended", <<>>)
            /\ output' = <<"ImproperlyConfigured">>
    /\ UNCHANGED <<articles, locks, now, nextId, calls, req, killed, deleted>>

\* the requests of the call after one more was sent and answered
Sent(reply) == Append(input.requests, [round |-> input.pc, reply |-> reply])

\* variant: an empty draft does not raise
DraftRoundAcceptsEmpty(reply) ==
    /\ input # <<>>
    /\ input.pc = "draft"
    /\ IF reply.failed
       THEN /\ input' = Generating("ended", Sent(reply))
            /\ output' = <<"RuntimeError">>
       ELSE /\ input' = Generating("link", Sent(reply))
            /\ UNCHANGED output
    /\ UNCHANGED <<articles, locks, now, nextId, calls, req, killed, deleted>>

\* lines 398-422: the draft request is sent; a transport failure or an
\* empty body raises RuntimeError
DraftRound(reply) ==
    /\ input # <<>>
    /\ input.pc = "draft"
    /\ IF reply.failed \/ body(reply) = <<>>
       THEN /\ input' = Generating("ended", Sent(reply))
            /\ output' = <<"RuntimeError">>
       ELSE /\ input' = Generating("link", Sent(reply))
            /\ UNCHANGED output
    /\ UNCHANGED <<articles, locks, now, nextId, calls, req, killed, deleted>>

\* lines 424-451: the link request is sent; a transport failure or an
\* empty body raises RuntimeError, anything else is returned
LinkRound(reply) ==
    /\ input # <<>>
    /\ input.pc = "link"
    /\ input' = Generating("ended", Sent(reply))
    /\ output' = IF reply.failed \/ body(reply) = <<>>
                 THEN <<"RuntimeError">> ELSE <<"text">>
    /\ UNCHANGED <<articles, locks, now, nextId, calls, req, killed, deleted>>

GenerationNext ==
    \/ \E configured \in BOOLEAN : GenerateCall(configured)
    \/ \E reply \in Replies : DraftRound(reply)
    \/ \E reply \in Replies : LinkRound(reply)

GenerationSpec == Init /\ [][GenerationNext]_vars

(***************************************************************************)
(* C23: the draft request is sent first and the link request only after a  *)
(* draft that is not empty; a transport failure or an empty output in      *)
(* either round raises RuntimeError at once; a call sends at most two      *)
(* requests and returns text only after both rounds produced output.       *)
(***************************************************************************)
\* the round brought back text
Produced(request) == ~request.reply.failed /\ body(request.reply) # <<>>

C23_TwoRoundsNoRetry ==
    input # <<>> =>
        LET sent == input.requests
        IN  /\ Len(sent) <= 2
            /\ \A i \in 1..Len(sent) :
                  sent[i].round = (IF i = 1 THEN "draft" ELSE "link")
            /\ \A i \in 1..Len(sent) :
                  IF Produced(sent[i])
                  THEN i = 1 => input.pc = "link" \/ Len(sent) = 2
                  ELSE i = Len(sent) /\ input.pc = "ended"
                       /\ output = <<"RuntimeError">>
            /\ output = <<"text">> =>
                  Len(sent) = 2 /\ Produced(sent[1]) /\ Produced(sent[2])
            /\ output = <<"RuntimeError">> =>
                  sent # <<>> /\ ~Produced(sent[Len(sent)])

\* a call returned text after two requests, the second of which came back
\* with an empty block beside its text
C23_Witness ==
    /\ input # <<>>
    /\ output = <<"text">>
    /\ Len(input.requests) = 2
    /\ input.requests[2].reply.blocks = << <<>>, <<"\n", "b", " ">> >>

(***************************************************************************)
(* The views that materialize an article: what they answer once their      *)
(* get_or_create_article call has ended with record r.                     *)
(***************************************************************************)
\* the notice of views.py lines 97-99
InProgressNotice == "Another archivist is already transcribing that entry."

\* the pending page of article_detail, lines 139-151
PendingPage(status_code, pending_error, pending_notice, pending_title) ==
    [status |-> status_code, template |-> "article_pending.html",
     pending_error |-> pending_error, pending_notice |-> pending_notice,
     pending_title |-> pending_title]

\* variant: a creation in progress is reported like a failed generation
article_detail_in_progress_fails(r, display_title) ==
    CASE r.kind = "ok" ->
           [status |-> 200, template |-> "article_detail.html",
            pending_error |-> "", pending_notice |-> "",
            pending_title |-> <<>>]
      [] r.kind \in {"ArticleCreationInProgress", "RuntimeError"} ->
           PendingPage(503, "declined", "", display_title)
      [] r.kind = "DailyArticleLimitExceeded" ->
           PendingPage(503, "off the clock", "", display_title)
      [] r.kind = "ImproperlyConfigured" ->
           PendingPage(503, "suspended", "", display_title)
      [] r.kind = "ValueError" ->
           PendingPage(400, "not a valid entry", "", display_title)
      [] OTHER ->
           [status |-> 500, template |-> "", pending_error |-> "",
            pending_notice |-> "", pending_title |-> <<>>]

\* article_detail with fetch=1 from a browser, lines 86-151
article_detail(r, display_title) ==
    CASE r.kind = "ok" ->
           [status |-> 200, template |-> "article_detail.html",
            pending_error |-> "", pending_notice |-> "",
            pending_title |-> <<>>]
      [] r.kind = "ArticleCreationInProgress" ->
           PendingPage(202, "", InProgressNotice,
                       IF r.excTitle # <<>> THEN r.excTitle ELSE display_title)
      [] r.kind = "DailyArticleLimitExceeded" ->
           PendingPage(503, "off the clock", "", display_title)
      [] r.kind = "ImproperlyConfigured" ->
           PendingPage(503, "suspended", "", display_title)
      [] r.kind = "ValueError" ->
           PendingPage(400, "not a valid entry", "", display_title)
      [] r.kind = "RuntimeError" ->
           PendingPage(503, "declined", "", display_title)
      [] OTHER ->
           [status |-> 500, template |-> "", pending_error |-> "",
            pending_notice |-> "", pending_title |-> <<>>]

\* the JSON answers of create_article_from_result
Json(status_code, pending, url, error) ==
    [status |-> status_code, pending |-> pending, url |-> url, error |-> error]

\* reverse("main:article-detail", kwargs={"slug": slug})
DetailUrl(slug) == <<"/entries/">> \o slug \o <<"/">>

\* create_article_from_result, lines 227-274
create_article_from_result(r) ==
    CASE r.kind = "ok" ->
           Json(200, FALSE,
                DetailUrl((CHOOSE a \in articles : a.id = r.article).slug), "")
      [] r.kind = "ArticleCreationInProgress" ->
           Json(202, TRUE, DetailUrl(r.excSlug), "")
      [] r.kind = "DailyArticleLimitExceeded" -> Json(503, FALSE, <<>>, "off the clock")
      [] r.kind = "ImproperlyConfigured" -> Json(503, FALSE, <<>>, "suspended")
      [] r.kind = "ValueError" -> Json(400, FALSE, <<>>, "not a valid entry")
      [] r.kind = "RuntimeError" -> Json(503, FALSE, <<>>, "declined")
      [] OTHER -> Json(500, FALSE, <<>>, "")

(***************************************************************************)
(* C25: a call that found an unexpired lock is answered as pending:        *)
(* article_detail renders the pending page with status 202 and a notice,   *)
(* create_article_from_result answers 202 with pending=true and the locked *)
(* slug in its url; quota, configuration and generation failures are       *)
(* answered with 503, a ValueError with 400.                               *)
(***************************************************************************)
C25_InProgressIsPending ==
    \A p \in Procs :
        Ended(p) =>
            LET r == req[p]
                page == article_detail(r, r.title)
                json == create_article_from_result(r)
            IN  /\ r.kind = "ArticleCreationInProgress" =>
                      /\ r.excSlug = r.slug
                      /\ page.status = 202
                      /\ page.template = "article_pending.html"
                      /\ page.pending_notice # ""
                      /\ page.pending_error = ""
                      /\ json.status = 202
                      /\ json.pending
                      /\ json.url = DetailUrl(r.slug)
                /\ r.kind \in {"DailyArticleLimitExceeded", "ImproperlyConfigured",
                               "RuntimeError"} =>
                      /\ page.status = 503 /\ page.pending_notice = ""
                      /\ page.pending_error # ""
                      /\ json.status = 503 /\ ~json.pending /\ json.error # ""
                /\ r.kind = "ValueError" =>
                      /\ page.status = 400 /\ page.pending_error # ""
                      /\ json.status = 400 /\ json.error # ""

\* a call was refused by the unexpired lock of another call that is still
\* generating, and both views answer it with 202
C25_Witness ==
    \E p, q \in Procs :
        /\ Ended(p) /\ req[p].kind = "ArticleCreationInProgress"
        /\ req[q].pc = "generate" /\ req[q].slug = req[p].excSlug
        /\ \E l \in locks : l.slug = req[p].slug /\ l.expires_at > req[p].now
        /\ article_detail(req[p], req[p].title).status = 202
        /\ create_article_from_result(req[p]).pending

(***************************************************************************)
(* C31: a lock row whose expires_at equals the timestamp of the            *)
(* acquisition is not removed by the cleanup and does not raise            *)
(* ArticleCreationInProgress: the acquirer writes its title, its token and *)
(* a new expires_at over it and returns the token.                         *)
(***************************************************************************)
\* the committed rows for the slug of worker p
RowsForSlugOf(p) == {l \in locks : l.slug = req[p].slug}

C31_LockAtExpiryIsTakenOver ==
    [][\A p \in Procs :
          (req[p].pc = "acq_check" /\ Moves(p)
           /\ \E l \in RowsForSlugOf(p) : l.expires_at = req[p].now) =>
              /\ RowsForSlugOf(p) \cap ExpiredLocks(req[p].now) = {}
              /\ req'[p].pc = "recheck"
              /\ req'[p].kind = "none"
              /\ req'[p].token = req[p].token
              /\ {l \in locks' : l.slug = req[p].slug} =
                    {[slug |-> req[p].slug, title |-> req[p].title,
                      token |-> req[p].token,
                      expires_at |-> req[p].now + ARTICLE_CREATION_LOCK_TTL]}]_vars

\* worker p holds the lock it acquired at the very expires_at of the lock
\* that worker q had acquired before
C31_Witness ==
    \E p, q \in Procs :
        /\ p # q
        /\ Held(p) /\ Acquired(q)
        /\ req[p].slug = req[q].slug
        /\ req[p].call > req[q].call
        /\ req[p].now = ExpiryOf(q)
        /\ req[p].lockWrites = 1
        /\ LocksOf(req[p].slug, req[p].token) # {}

(***************************************************************************)
(* C37: the slugs of the entries of a list that generate_search_results    *)
(* returns are pairwise distinct, also where the slug of an entry was      *)
(* replaced by the slug of the stored article its article_id names.        *)
(***************************************************************************)
C37_ResultSlugsPairwiseDistinct ==
    (Searched /\ output[1].kind = "ok") =>
        \A i, j \in 1..Len(output[1].results) :
            i # j => output[1].results[i].slug # output[1].results[j].slug

(***************************************************************************)
(* C36: encyclopedai_slugify returns the empty string for an empty or      *)
(* whitespace-only input; a non-empty result neither starts nor ends with  *)
(* a hyphen, has no two hyphens in a row, no hyphen right before ")" and   *)
(* none right after "(", and holds only lowercase ASCII letters, digits,   *)
(* hyphens and parentheses.                                                *)
(***************************************************************************)
\* the lowercase letters and digits of the model, hyphen and parentheses
SlugAlphabet == {"x", "y", "2", "-", "(", ")"}

\* the characters a and b occur next to each other in s, in this order
Adjacent(s, a, b) == \E i \in 1..(Len(s) - 1) : s[i] = a /\ s[i + 1] = b

WellFormedSlug(s) ==
    /\ s[1] # "-" /\ s[Len(s)] # "-"
    /\ ~Adjacent(s, "-", "-")
    /\ ~Adjacent(s, "-", ")")
    /\ ~Adjacent(s, "(", "-")
    /\ \A i \in 1..Len(s) : s[i] \in SlugAlphabet

C36_SlugWellFormed ==
    output # <<>> =>
        /\ (\A i \in 1..Len(input) : input[i] \in Whitespace) => output[1] = <<>>
        /\ \A k \in 1..Len(output) : output[k] # <<>> => WellFormedSlug(output[k])

\* a title with a hyphen right after "(" and one right before ")" got a
\* slug that keeps both parentheses
C36_Witness ==
    /\ output # <<>> /\ output[1] # <<>>
    /\ Adjacent(input, "(", "-") /\ Adjacent(input, "-", ")")
    /\ Adjacent(output[1], "(", "x") /\ Adjacent(output[1], "x", ")")

(***************************************************************************)
(* Articles whose contents hold several links to one slug, or a link to a  *)
(* slug with a disambiguation parenthetical, are created, then the         *)
(* briefings for a slug are collected.                                     *)
(***************************************************************************)
\* a slug of the form base-(descriptor), as encyclopedai_slugify returns
\* for a title such as "Sun (star)"
ParentheticalSlug == <<"y", "-", "(", "x", ")">>

\* two links to /entries/y/ on the first line and one on the second
ThreeLinks ==
    Text(<<"a">>, "/entries/", <<"y", "/">>)
    \o Text(<<"b">>, "/entries/", <<"y", "/">>)
    \o <<"\n">> \o Text(<<"c">>, "/entries/", <<"y", "/">>)

IncomingRequests ==
    {<< <<"2">>, ThreeLinks >>,
     << <<"X">>, ThreeLinks >>,
     << <<"Y">>, ThreeLinks >>,
     << <<"X", "y">>, LinkTo(ParentheticalSlug) >>}

IncomingTargets == {<<"y">>, ParentheticalSlug}

IncomingNext ==
    \/ \E r \in IncomingRequests : output = <<>> /\ Create(r[1], r[2])
    \/ \E target_slug \in IncomingTargets : CollectBriefings(target_slug)

IncomingSpec == Init /\ [][IncomingNext]_vars

(***************************************************************************)
(* C34: an article whose content holds [text](/entries/S/), S a slug with  *)
(* a disambiguation parenthetical, has the complete slug S among its       *)
(* outgoing_links, and the briefings collected for S include that article. *)
(***************************************************************************)
C34_ParentheticalSlugIsLinked ==
    \A a \in articles :
        a.content = LinkTo(ParentheticalSlug) =>
            /\ ParentheticalSlug \in Range(a.outgoing_links)
            /\ (output # <<>> /\ input = ParentheticalSlug) =>
                  \E i \in 1..Len(output[1]) : output[1][i].title = a.title

(***************************************************************************)
(* C35: _collect_incoming_link_briefings returns at most max_items         *)
(* briefings, stops as soon as it has that many, and lists them in the     *)
(* order of discovery: linking articles by title, within an article by     *)
(* line, within a line by match.  With the articles titled 2 and X, each   *)
(* holding links a and b on its first line and c on its second, the list   *)
(* for y is a, b, c of 2 and then a, b of X.                               *)
(***************************************************************************)
\* the table holds exactly the articles with the given titles, each with
\* the content ThreeLinks
ThreeLinksEach(titles) ==
    /\ {a.title : a \in articles} = titles
    /\ Cardinality(articles) = Cardinality(titles)
    /\ \A a \in articles : a.content = ThreeLinks

Briefing(title, anchor_text) ==
    [title |-> title, excerpt |-> <<"a", "b", "\n", "c">>,
     anchor_text |-> anchor_text]

C35_AtMostMaxItemsInDiscoveryOrder ==
    output # <<>> =>
        /\ Len(output[1]) <= max_items
        /\ \A i, j \in 1..Len(output[1]) :
              i < j => ~TitleLess(output[1][j].title, output[1][i].title)
        /\ (input = <<"y">> /\ ThreeLinksEach({<<"2">>})) =>
              output[1] = <<Briefing(<<"2">>, <<"a">>), Briefing(<<"2">>, <<"b">>),
                            Briefing(<<"2">>, <<"c">>)>>
        /\ (input = <<"y">> /\ ThreeLinksEach({<<"2">>, <<"X">>})) =>
              output[1] = <<Briefing(<<"2">>, <<"a">>), Briefing(<<"2">>, <<"b">>),
                            Briefing(<<"2">>, <<"c">>), Briefing(<<"X">>, <<"a">>),
                            Briefing(<<"X">>, <<"b">>)>>

\* six links to y were there to discover, in two articles; five briefings
\* were returned
C35_Witness ==
    /\ output # <<>> /\ input = <<"y">>
    /\ ThreeLinksEach({<<"2">>, <<"X">>})
    /\ Len(output[1]) = max_items
    /\ output[1][max_items].title = <<"X">>

(***************************************************************************)
(* C32: when get_or_create_article finds an existing article (by title,    *)
(* by hint slug, by derived slug or at the re-check under the lock), the   *)
(* summary_snippet of that article becomes the stripped summary_hint if    *)
(* that is non-empty and differs, and stays as it is otherwise; id, title, *)
(* slug and content of the article, and every other article, are           *)
(* unchanged.                                                              *)
(***************************************************************************)
\* worker p finds an existing article in this step
Finds(p) ==
    /\ Moves(p)
    /\ req'[p].kind = "ok" /\ ~req'[p].created
    /\ req[p].kind # "ok" \/ req[p].pc \in {"idle", "ended"}

\* the stripped summary_hint of the call worker p executes in this step
HintsOf(p) ==
    IF req[p].pc \in {"idle", "ended"}
    THEN {strip(r[2]) : r \in {q \in Requests : strip(q[1]) = req'[p].title}}
    ELSE {req[p].summary}

C32_FoundArticleOnlySummaryRefreshed ==
    [][\A p \in Procs :
          Finds(p) =>
              \E a \in articles, cleaned_summary \in HintsOf(p) :
                  /\ a.id = req'[p].article
                  /\ articles' =
                       (articles \ {a}) \cup
                         {[a EXCEPT !.summary_snippet =
                              IF cleaned_summary # <<>> THEN cleaned_summary
                              ELSE @]}]_vars

\* a call with a summary hint found, at the re-check under the lock, an
\* article stored without a summary, and wrote the hint
C32_Witness ==
    \E p \in Procs, a \in articles :
        /\ req[p].pc = "release" /\ ReturnedExisting(p) /\ ~req[p].invoked
        /\ req[p].article = a.id
        /\ req[p].articleWrites = 1
        /\ req[p].summary = <<"s">> /\ a.summary_snippet = <<"s">>

(***************************************************************************)
(* utils.is_whitelisted.  A User-Agent is a sequence of characters; the    *)
(* placeholder "<num>" of the normalised form is one element.              *)
(***************************************************************************)
isdigit(c) == c \in {"1", "2"}

\* re.sub(r"\s+", " ", ua)
RECURSIVE collapse_whitespace(_)
collapse_whitespace(ua) ==
    IF ua = <<>> THEN <<>>
    ELSE IF isspace(Head(ua))
    THEN <<" ">> \o collapse_whitespace(lstrip(ua, Whitespace))
    ELSE <<Head(ua)>> \o collapse_whitespace(Tail(ua))

\* the last position of the match of \d+(?:[._]\d+)* that starts at the
\* digit at position i
RECURSIVE num_end(_, _)
num_end(ua, i) ==
    IF i < Len(ua) /\ isdigit(ua[i + 1]) THEN num_end(ua, i + 1)
    ELSE IF i + 1 < Len(ua) /\ ua[i + 1] \in {".", "_"} /\ isdigit(ua[i + 2])
    THEN num_end(ua, i + 2)
    ELSE i

\* _NUM_PATTERN.sub("<num>", ua)
RECURSIVE sub_num(_)
sub_num(ua) ==
    IF ua = <<>> THEN <<>>
    ELSE IF isdigit(Head(ua))
    THEN <<"<num>">> \o sub_num(SubSeq(ua, num_end(ua, 1) + 1, Len(ua)))
    ELSE <<Head(ua)>> \o sub_num(Tail(ua))

normalize_ua(ua) == sub_num(lower(collapse_whitespace(strip(ua))))

\* two entries stand for the twenty of the source: a product with a
\* version, and one followed by a second word
NORMALIZED_WHITELIST ==
    {<<"x", "/", "<num>">>, <<"x", "/", "<num>", " ", "y">>}

\* variant: every User-Agent is served
is_whitelisted_any(ua) == TRUE

is_whitelisted(ua) == normalize_ua(ua) \in NORMALIZED_WHITELIST

\* the User-Agent headers of the requests with fetch=1, the only ones whose
\* header is read: none, a crawler, a browser, a browser with
\* padding, doubled spaces and an underscored version, and a browser whose
\* version ends in a dot
UserAgents ==
    {<<>>,
     <<"b", "o", "t">>,
     <<"X", "/", "2", ".", "1">>,
     <<" ", "X", "/", "1", "_", "2", " ", " ", "Y">>,
     <<"X", "/", "2", ".">>}

(***************************************************************************)
(* services.humanize_slug                                                  *)
(***************************************************************************)
upperChar(c) == CASE c = "x" -> "X" [] c = "y" -> "Y" [] OTHER -> c

\* string.capwords(words): split on whitespace, capitalize, join with " "
RECURSIVE capwords(_, _)
capwords(words, at_start) ==
    IF words = <<>> THEN <<>>
    ELSE IF isspace(Head(words))
    THEN (IF lstrip(words, Whitespace) = <<>> THEN <<>> ELSE <<" ">>)
         \o capwords(lstrip(words, Whitespace), TRUE)
    ELSE <<IF at_start THEN upperChar(Head(words)) ELSE lowerChar(Head(words))>>
         \o capwords(Tail(words), FALSE)

humanize_slug(slug) ==
    LET words == strip([i \in 1..Len(slug) |->
                          IF slug[i] = "-" THEN " " ELSE slug[i]])
    IN  IF words = <<>> THEN <<"Untitled Entry">> ELSE capwords(words, TRUE)

(***************************************************************************)
(* The view article_detail around get_or_create_article, and the staff     *)
(* views that delete an article.  input holds the request that is being    *)
(* served or was served last, output the response to it.                   *)
(***************************************************************************)
\* article_detail.html, status 200
DetailPage ==
    [status |-> 200, template |-> "article_detail.html", pending_error |-> "",
     pending_notice |-> "", pending_title |-> <<>>]

\* an exception no handler of the view catches
ServerError ==
    [status |-> 500, template |-> "", pending_error |-> "",
     pending_notice |-> "", pending_title |-> <<>>]

\* the response, and how often the view called generate_article_summary
Response(page, summary_requests) ==
    [page |-> page, summary_requests |-> summary_requests]

\* variant: the page without fetch=1 does not look at the quota
pending_without_quota(display_title) == PendingPage(202, "", "", display_title)

\* lines 153-171: the pending page of a request without fetch=1
pending_without_fetch(display_title) ==
    IF LimitReached
    THEN PendingPage(503, "off the clock", "", display_title)
    ELSE PendingPage(202, "", "", display_title)

\* lines 70-85: the pending page for a User-Agent that is not whitelisted
pending_for_bot(display_title) ==
    PendingPage(403, "the archivists do not work for bots", "", display_title)

\* the request is being served by a worker that has yet to call the service
Waiting(p) ==
    /\ input # <<>> /\ input[1].phase = "service" /\ input[1].worker = p
    /\ req[p].call = input[1].since

\* the service call of the request that worker p serves has ended
Answered(p) ==
    /\ input # <<>> /\ input[1].phase = "service" /\ input[1].worker = p
    /\ req[p].call # input[1].since /\ req[p].pc = "ended"

\* lines 55-85 and 153-171: the request arrives at worker p and is answered
\* at once, or goes on to the service.  Requests are served one at a time,
\* each by the worker whose last service call is the oldest.
ViewStart(p, slug, fetch, user_agent, title_hint, snippet_hint) ==
    LET display_title == IF strip(title_hint) # <<>> THEN strip(title_hint)
                         ELSE humanize_slug(slug)
        request == [slug |-> slug, fetch |-> fetch, user_agent |-> user_agent,
                    title |-> display_title, snippet |-> strip(snippet_hint),
                    worker |-> p, since |-> req[p].call, phase |-> "done",
                    summary |-> <<"none", <<>>>>]
    IN  /\ req[p].pc \in {"idle", "ended"}
        /\ IF input = <<>> THEN TRUE ELSE input[1].phase = "done"
        /\ \A q \in Procs :
              \/ req[q].call > req[p].call
              \/ req[q].call = req[p].call /\ q >= p
        /\ IF BySlug(slug) # {}
           THEN /\ input' = <<request>>
                /\ output' = <<Response(DetailPage, 0)>>
           ELSE IF ~fetch
           THEN /\ input' = <<request>>
                /\ output' = <<Response(pending_without_fetch(display_title), 0)>>
           ELSE IF ~is_whitelisted(user_agent)
           THEN /\ input' = <<request>>
                /\ output' = <<Response(pending_for_bot(display_title), 0)>>
           ELSE /\ calls < MaxCalls
                /\ input' = <<[request EXCEPT !.phase = "service"]>>
                /\ output' = <<>>
        /\ UNCHANGED <<articles, locks, now, nextId, calls, req, killed, deleted>>

\* what generate_article_summary does: a summary, or one of the exceptions
SummaryOutcomes ==
    {<<"text", <<"t">>>>, <<"text", <<"s", " ">>>>, <<"RuntimeError", <<>>>>,
     <<"ImproperlyConfigured", <<>>>>, <<"ValueError", <<>>>>}

\* variant: a failed summary leaves a placeholder in its place
summary_text_or_placeholder(outcome) ==
    IF outcome[1] = "text" THEN strip(outcome[2]) ELSE <<"!">>

\* lines 118-124: the text the view goes on with
summary_text(outcome) ==
    IF outcome[1] = "text" THEN strip(outcome[2]) ELSE <<>>

\* lines 86-151: the service call has ended; the view summarises a created
\* article and renders
ViewFinish(p, outcome) ==
    LET r == req[p]
        generated == summary_text(outcome)
        stored == strip(input[1].snippet)
        saves == r.kind = "ok" /\ r.created /\ generated # <<>>
                 /\ generated # stored
        row == {a \in articles : a.id = r.article}
    IN  /\ Answered(p)
        /\ input' = <<[input[1] EXCEPT !.phase = "done",
                          !.summary = IF r.kind = "ok" /\ r.created
                                      THEN outcome ELSE @]>>
        /\ IF r.kind # "ok"
           THEN /\ output' = <<Response(article_detail(r, input[1].title), 0)>>
                /\ UNCHANGED articles
           ELSE IF saves /\ row = {}
           THEN /\ output' = <<Response(ServerError, 1)>>
                /\ UNCHANGED articles
           ELSE /\ output' = <<Response(DetailPage, IF r.created THEN 1 ELSE 0)>>
                /\ articles' =
                     IF saves
                     THEN (articles \ row)
                          \cup {[a EXCEPT !.summary_snippet = generated] : a \in row}
                     ELSE articles
        /\ UNCHANGED <<locks, now, nextId, calls, req, killed, deleted>>

ViewSlugs == {<<"x">>, <<"y">>}

ViewNext ==
    \/ \E p \in Procs, slug \in ViewSlugs, fetch \in BOOLEAN,
          title_hint \in {<<>>, <<"X", " ">>}, snippet_hint \in {<<>>, <<"s">>} :
          \E user_agent \in (IF fetch THEN UserAgents ELSE {<<>>}) :
              ViewStart(p, slug, fetch, user_agent, title_hint, snippet_hint)
    \/ \E p \in Procs :
          /\ Waiting(p)
          /\ Call(p, input[1].title, input[1].snippet, input[1].slug)
    \/ \E p \in Procs : LookupByHint(p)
    \/ \E p \in Procs : LookupBySlug(p)
    \/ \E p \in Procs : EnforceLimit(p)
    \/ \E p \in Procs : AcquireStart(p)
    \/ \E p \in Procs : AcquireCheck(p)
    \/ \E p \in Procs : AcquireInsert(p)
    \/ \E p \in Procs : Recheck(p)
    \/ \E p \in Procs, outcome \in GenerationOutcomes : Generate(p, outcome)
    \/ \E p \in Procs : Persist(p)
    \/ \E p \in Procs : Release(p)
    \/ \E p \in Procs, outcome \in SummaryOutcomes : ViewFinish(p, outcome)
    \/ \E a \in articles : DeleteArticle(a)

ViewSpec == Init /\ [][ViewNext]_vars

\* a request arrives in this step
Arrives ==
    /\ IF input = <<>> THEN TRUE ELSE input[1].phase = "done"
    /\ input' # input

\* nothing is materialised in this step: no row, no lock, no service call
NothingStarted ==
    /\ UNCHANGED <<articles, locks, req, calls, nextId>>
    /\ input'[1].phase = "done"
    /\ output'[1].summary_requests = 0

(***************************************************************************)
(* C38: a request without fetch=1 for a slug no article has creates no     *)
(* Article row, takes no lock and invokes no generation; it is answered    *)
(* with the pending page, with status 202, or with status 503 and a        *)
(* non-empty pending_error when the daily quota is reached.                *)
(***************************************************************************)
C38_WithoutFetchNothingStarts ==
    [][(Arrives /\ ~input'[1].fetch /\ BySlug(input'[1].slug) = {}) =>
          /\ NothingStarted
          /\ output'[1].page.template = "article_pending.html"
          /\ IF articles_created_today >= DAILY_ARTICLE_LIMIT
             THEN /\ output'[1].page.status = 503
                  /\ output'[1].page.pending_error # ""
             ELSE /\ output'[1].page.status = 202
                  /\ output'[1].page.pending_error = ""]_vars

\* with the quota of the day used up by another article, the slug was
\* viewed without fetch=1 and the answer was 503
C38_Witness ==
    /\ input # <<>> /\ output # <<>>
    /\ ~input[1].fetch /\ input[1].phase = "done"
    /\ BySlug(input[1].slug) = {} /\ articles # {}
    /\ output[1].page.status = 503
    /\ output[1].page.template = "article_pending.html"

(***************************************************************************)
(* C39: a request with fetch=1 for a slug no article has, from a           *)
(* User-Agent that is not whitelisted, is answered with status 403 and     *)
(* does not reach get_or_create_article: no lock, no generation, no row.   *)
(* A whitelisted User-Agent goes on to the service.                        *)
(***************************************************************************)
\* no header, a crawler, and a browser string with a stray dot
UnlistedAgents == {<<>>, <<"b", "o", "t">>, <<"X", "/", "2", ".">>}

C39_UnlistedAgentIsRefused ==
    [][(Arrives /\ input'[1].fetch /\ BySlug(input'[1].slug) = {}) =>
          IF input'[1].user_agent \in UnlistedAgents
          THEN /\ NothingStarted
               /\ output'[1].page.status = 403
               /\ output'[1].page.template = "article_pending.html"
               /\ output'[1].page.pending_error # ""
          ELSE input'[1].phase = "service"]_vars

\* a crawler asked for the article with fetch=1 on a day with quota left
\* and was answered 403
C39_Witness ==
    /\ input # <<>> /\ output # <<>>
    /\ input[1].fetch /\ input[1].phase = "done"
    /\ input[1].user_agent = <<"b", "o", "t">>
    /\ BySlug(input[1].slug) = {} /\ ~LimitReached
    /\ output[1].page.status = 403

(***************************************************************************)
(* C40: in article_detail with fetch=1 the summary is generated only when  *)
(* get_or_create_article returned created=True; when the generation fails  *)
(* with ImproperlyConfigured, RuntimeError or ValueError the article stays *)
(* as it was stored and the page is rendered with status 200; the          *)
(* summary_snippet is replaced only by a generated summary that is not     *)
(* empty and differs from the stored one.  (An article that staff deleted  *)
(* while it was summarised is left aside.)                                 *)
(***************************************************************************)
C40_SummaryOnlyForCreatedFailureSwallowed ==
    [][\A p \in Procs :
          (Answered(p) /\ input'[1].phase = "done" /\ req[p].kind = "ok") =>
              LET outcome == input'[1].summary
                  text == IF outcome[1] = "text" THEN strip(outcome[2]) ELSE <<>>
                  row == {a \in articles : a.id = req[p].article}
              IN  /\ output'[1].summary_requests = (IF req[p].created THEN 1 ELSE 0)
                  /\ ~req[p].created =>
                        articles' = articles /\ output'[1].page = DetailPage
                  /\ (req[p].created /\ row # {}) =>
                        /\ output'[1].page = DetailPage
                        /\ articles' =
                             (articles \ row) \cup
                               {[a EXCEPT !.summary_snippet =
                                    IF text # <<>> /\ text # a.summary_snippet
                                    THEN text ELSE @] : a \in row}]_vars

\* the summary of a created article failed; the article is stored with its
\* content and the summary of the request, and the page is the article
C40_Witness ==
    /\ input # <<>> /\ output # <<>>
    /\ input[1].phase = "done" /\ input[1].fetch
    /\ input[1].summary[1] = "RuntimeError"
    /\ output[1] = Response(DetailPage, 1)
    /\ \E a \in articles :
          /\ a.id = req[input[1].worker].article
          /\ a.slug = input[1].slug
          /\ a.summary_snippet = <<"s">>

(***************************************************************************)
(* C33: no step of the service, of the detail view or of the staff views   *)
(* edits an article in place: a row keeps its id, title, slug and content  *)
(* until it is deleted, and a new row has a fresh id and a slug that no    *)
(* stored row has, so the content served for a slug changes only by a      *)
(* delete and a later creation.                                            *)
(***************************************************************************)
C33_NoInPlaceEdit ==
    [][/\ \A a \in articles :
             \/ \E b \in articles' :
                    /\ b.id = a.id /\ b.title = a.title
                    /\ b.slug = a.slug /\ b.content = a.content
             \/ /\ a.id \in deleted' \ deleted
                /\ \A b \in articles' : b.id # a.id /\ b.slug # a.slug
       /\ \A b \in articles' :
             (\A a \in articles : a.id # b.id) =>
                 /\ b.id = nextId /\ nextId' > nextId
                 /\ \A a \in articles : a.slug # b.slug]_vars

\* an article was created, deleted by staff, and created again under the
\* same slug with another id and another content
C33_Witness ==
    \E p, q \in Procs, a \in articles :
        /\ req[p].created /\ req[p].article \in deleted
        /\ req[q].created /\ req[q].article = a.id
        /\ req[q].slug = req[p].slug /\ a.slug = req[p].slug
        /\ a.id # req[p].article /\ a.content # req[p].call

=============================================================================
